---- MODULE Spec2Model ----
(***************************************************************************)
(* A model of gopass-secret-service: the D-Bus Secret Service object graph *)
(* (Service, Collection, Item, Session), its registries, the gopass-backed *)
(* store adapter and the transport crypto.                                *)
(*                                                                         *)
(* Strings that the code inspects (prefix tests, splitting at "/") are     *)
(* sequences of tokens: a token is either a character ("/", "_") or a run  *)
(* of characters the code never looks into ("default", "i1").  Strings the *)
(* code only compares for equality are TLA+ strings.                       *)
(***************************************************************************)
EXTENDS Integers, Sequences, FiniteSets, TLC

(***************************************************************************)
(* Bounds of the model.                                                    *)
(***************************************************************************)
\* how many item ids uuid.New hands out before CreateItem stops creating
MaxItems == 2
\* the last second the clock reaches
MaxTime == 4
\* how many sessions OpenSession opens
MaxSessions == 2
\* how many handler calls run at the same time
MaxGoroutines == 2
\* how many prompts CreatePrompt makes
MaxPrompts == 1

(***************************************************************************)
(* Program constants.                                                      *)
(***************************************************************************)
BlockSize == 16
PublicKeyLen == 128
AESKeyLen == 16

CollectionBasePath == <<"/org/freedesktop/secrets/collection">>
SessionBasePath == <<"/org/freedesktop/secrets/session">>
AliasBasePath == <<"/org/freedesktop/secrets/aliases">>
PromptBasePath == <<"/org/freedesktop/secrets/prompt">>
ServicePath == <<"/org/freedesktop/secrets">>
RootPath == <<"/">>

AlgorithmPlain == "plain"
AlgorithmDHAES == "dh-ietf1024-sha256-aes128-cbc-pkcs7"

ErrNoSession == "org.freedesktop.Secret.Error.NoSession"
ErrNoSuchObject == "org.freedesktop.Secret.Error.NoSuchObject"
ErrNotSupported == "org.freedesktop.Secret.Error.NotSupported"
ErrAlreadyExists == "org.freedesktop.Secret.Error.AlreadyExists"
\* the bus library's own reply to a call on a path where no object is exported:
\* an error name of org.freedesktop.DBus.Error, never one of the service's
BusDispatchError == "org.freedesktop.DBus.Error"
NoError == ""

metaPrefix == "_ss_"
labelKey == <<"_ss_", "label">>
createdKey == <<"_ss_", "created">>
modifiedKey == <<"_ss_", "modified">>
contentTypeKey == <<"_ss_", "content_type">>
DefaultContentType == "text/plain"

\* cfg.DefaultCollection and the label ensureDefaultCollection gives it
DefaultCollection == <<"default">>
DefaultLabel == <<"Default">>
DefaultAlias == <<"default">>

(***************************************************************************)
(* String helpers on token sequences.                                      *)
(***************************************************************************)
HasPrefix(s, prefix) ==
    /\ Len(s) >= Len(prefix)
    /\ SubSeq(s, 1, Len(prefix)) = prefix

TrimPrefix(s, prefix) ==
    IF HasPrefix(s, prefix) THEN SubSeq(s, Len(prefix) + 1, Len(s)) ELSE s

Contains(s, tok) == \E i \in 1..Len(s) : s[i] = tok

\* index of the first "/" of s, 0 when there is none
FirstSlash(s) ==
    IF Contains(s, "/")
    THEN CHOOSE i \in 1..Len(s) : s[i] = "/" /\ \A j \in 1..(i - 1) : s[j] # "/"
    ELSE 0

\* strings.SplitN(s, "/", 2)
SplitN2(s) ==
    IF FirstSlash(s) = 0
    THEN <<s>>
    ELSE <<SubSeq(s, 1, FirstSlash(s) - 1), SubSeq(s, FirstSlash(s) + 1, Len(s))>>

\* strings.Split(s, "/")
RECURSIVE Split(_)
Split(s) ==
    IF FirstSlash(s) = 0 THEN <<s>>
    ELSE <<SubSeq(s, 1, FirstSlash(s) - 1)>>
             \o Split(SubSeq(s, FirstSlash(s) + 1, Len(s)))

(***************************************************************************)
(* Path codec (internal/dbus).                                             *)
(***************************************************************************)
CollectionPath(name) == CollectionBasePath \o <<"/">> \o name

ItemPath(collection, itemID) ==
    CollectionBasePath \o <<"/">> \o collection \o <<"/">> \o itemID

SessionPath(id) == SessionBasePath \o <<"/">> \o id

AliasPath(alias) == AliasBasePath \o <<"/">> \o alias

\* ParseSessionPath: [ok, id]
ParseSessionPath(path) ==
    IF HasPrefix(path, SessionBasePath \o <<"/">>)
    THEN [ok |-> TRUE, id |-> TrimPrefix(path, SessionBasePath \o <<"/">>)]
    ELSE [ok |-> FALSE, id |-> <<>>]

(***************************************************************************)
(* Transport crypto (internal/crypto).  The AES block cipher is abstract:  *)
(* a ciphertext records the key and IV it was made with and the padded     *)
(* plaintext it carries; decrypting it with another key or IV yields a     *)
(* block of 255s, which no padding check accepts.  Padding and unpadding   *)
(* are computed byte for byte.                                             *)
(***************************************************************************)
Repeat(b, n) == [i \in 1..n |-> b]

ZeroKey == Repeat(0, AESKeyLen)

\* the padding that adds nothing to a plaintext of whole blocks
PKCS7PadShort(plaintext) ==
    LET padLen == (BlockSize - (Len(plaintext) % BlockSize)) % BlockSize
    IN plaintext \o Repeat(padLen, padLen)

\* DHSession.Encrypt, the PKCS7 padding
PKCS7Pad(plaintext) ==
    LET padLen == BlockSize - (Len(plaintext) % BlockSize)
    IN plaintext \o Repeat(padLen, padLen)

CBCEncrypt(key, iv, padded) == [key |-> key, iv |-> iv, blocks |-> padded]

CBCDecrypt(key, iv, ct) ==
    IF ct.key = key /\ ct.iv = iv THEN ct.blocks ELSE Repeat(255, Len(ct.blocks))

\* DHSession.Encrypt: (parameters, ciphertext)
DHEncrypt(key, iv, plaintext) ==
    [params |-> iv, value |-> CBCEncrypt(key, iv, PKCS7Pad(plaintext))]

\* an unpadding that leaves the first padding byte in place
PKCS7UnpadLong(decrypted) ==
    LET n == Len(decrypted)
        padLen == IF n = 0 THEN 0 ELSE decrypted[n]
    IN IF n = 0 \/ padLen = 0 \/ padLen > BlockSize \/ padLen > n
       THEN [ok |-> FALSE, plain |-> <<>>]
       ELSE [ok |-> TRUE, plain |-> SubSeq(decrypted, 1, n - padLen + 1)]

\* DHSession.Decrypt, the PKCS7 unpadding of the decrypted blocks: [ok, plain]
PKCS7Unpad(decrypted) ==
    LET n == Len(decrypted)
        padLen == IF n = 0 THEN 0 ELSE decrypted[n]
    IN IF n = 0 \/ padLen = 0 \/ padLen > BlockSize \/ padLen > n
       THEN [ok |-> FALSE, plain |-> <<>>]
       ELSE IF \E i \in (n - padLen + 1)..n : decrypted[i] # padLen
            THEN [ok |-> FALSE, plain |-> <<>>]
            ELSE [ok |-> TRUE, plain |-> SubSeq(decrypted, 1, n - padLen)]

\* DHSession.Decrypt: [ok, plain]
DHDecrypt(key, params, ct) ==
    IF Len(params) # BlockSize
    THEN [ok |-> FALSE, plain |-> <<>>]
    ELSE IF Len(ct.blocks) = 0 \/ Len(ct.blocks) % BlockSize # 0
         THEN [ok |-> FALSE, plain |-> <<>>]
         ELSE PKCS7Unpad(CBCDecrypt(key, params, ct))

\* PlainSession.Encrypt / Decrypt
PlainEncrypt(plaintext) == [params |-> <<>>, value |-> plaintext]

PlainDecrypt(params, value) == [ok |-> TRUE, plain |-> value]

\* a switch whose default case opens a session too
SupportedAlgorithmAny(algorithm) == algorithm = algorithm

\* crypto.NewSession: which algorithm names it accepts
SupportedAlgorithm(algorithm) == algorithm \in {AlgorithmPlain, AlgorithmDHAES}

\* the AES key NewDHSession derives for the n-th session (HKDF of the shared
\* secret): some non-zero key, the same one the client derives
DerivedKey(n) == Repeat(n, AESKeyLen)

\* crypto.NewSession, its output for the n-th session: nothing for a plain
\* session, the server's public key, padded, for a DH session
NewSessionOutput(algorithm, n) ==
    IF algorithm = AlgorithmDHAES THEN Repeat(n, PublicKeyLen) ELSE <<>>

\* a Close that zeroes a copy of the key and leaves the session's key as it is
CryptoCloseCopy(alg, aesKey) == aesKey

\* DHSession.Close zeroes every byte of the key; PlainSession.Close is a no-op
CryptoClose(alg, aesKey) ==
    IF alg = AlgorithmDHAES THEN [i \in 1..Len(aesKey) |-> 0] ELSE aesKey

(***************************************************************************)
(* State.                                                                  *)
(***************************************************************************)
VARIABLES
    now,             \* time.Now(), in seconds (RFC3339 keeps whole seconds)
    collMeta,        \* gopass store: <prefix>/<collection>/_meta secrets
    itemSecs,        \* gopass store: <prefix>/<collection>/<id> secrets
    aliases,         \* gopass store: the <prefix>/_aliases secret
    sessions,        \* SessionManager.sessions (the ids it maps)
    sess,            \* the Session objects: algorithm, closed, key, mutex
    closeAll,        \* SessionManager.CloseAll in flight: its snapshot
    collections,     \* CollectionManager.collections (the names it maps)
    collMu,          \* Collection.mu of each Collection object
    items,           \* ItemManager.items (the paths it maps)
    bus,             \* the objects exported on the connection, by path
    itemsProp,       \* the Items property of each Collection object (c.props)
    collectionsProp, \* the Collections property of the Service (s.props)
    signals,         \* the signals emitted by the handler that ran last
    nextItem,        \* how many item ids uuid.New has handed out
    nextSession,     \* how many session ids uuid.New has handed out
    last,            \* history: the handler call that acted last, with its result
    closedRet,       \* history: sessions whose Close / CloseAll has returned
    locked,          \* GopassStore.locked (the names it maps to true)
    lost,            \* the sessions whose opening client has left the bus
    nameOwned,       \* the connection owns the service's bus name (Service.Start)
    pending,         \* Service.GetSecrets in flight: its arguments and its session
    gor,             \* the handler goroutines: the method each runs, what is left
                     \* of it, the mutexes it holds, its snapshot of a registry
    prompts,         \* PromptManager.prompts (the ids it maps)
    prompt,          \* the Prompt objects: exported, completed, dismissed
    stop,            \* Service.Stop: the statement it has reached
    collProps        \* the property objects prop.Export made for the default
                     \* collection, by path: Label and Locked at its canonical
                     \* path (c.props, whose Items is itemsProp), Label, Locked
                     \* and Items at its alias path

vars == <<now, collMeta, itemSecs, aliases, sessions, sess, closeAll,
          collections, collMu, items, bus, itemsProp, collectionsProp,
          signals, nextItem, nextSession, last, closedRet, locked, lost,
          nameOwned, pending, gor, prompts, prompt, stop, collProps>>

storeVars == <<collMeta, itemSecs, aliases>>
sessionVars == <<sessions, sess, closeAll, nextSession, closedRet>>
graphVars == <<collections, collMu, items, bus, itemsProp, collectionsProp>>
lockVars == <<gor, prompts, prompt>>

(***************************************************************************)
(* Identifiers.  uuid.New never repeats, so the n-th id is a fresh token.  *)
(***************************************************************************)
ItemId(n) == <<"i" \o ToString(n)>>
SessionId(n) == <<"s" \o ToString(n)>>

\* a function as a set of pairs is awkward in TLC; these two build and cut maps
Restrict(f, S) == [k \in S |-> f[k]]
Without(f, S) == [k \in (DOMAIN f) \ S |-> f[k]]
Range(s) == {s[i] : i \in 1..Len(s)}
EmptyMap == [k \in {} |-> ""]

(***************************************************************************)
(* The store adapter (internal/store/gopass.go) over the gopass secrets.   *)
(* An item secret is a password, a key/value body and the two timestamps;  *)
(* the label, the content type and the attributes share the one key space  *)
(* of the body.                                                            *)
(***************************************************************************)
\* GopassStore.Items: the ids under <prefix>/<collection>/ that are no metadata
StoreItems(secs, collection) ==
    {k[2] : k \in {q \in DOMAIN secs :
                     /\ q[1] = collection
                     /\ ~HasPrefix(q[2], <<"_">>)}}

\* GopassStore.GetCollection succeeds: metadata, or anything under the path
StoreHasCollection(meta, secs, collection) ==
    \/ collection \in DOMAIN meta
    \/ \E q \in DOMAIN secs : q[1] = collection

\* GopassStore.CreateCollection
StoreCreateCollection(meta, name, label, t) ==
    [k \in DOMAIN meta \cup {name} |->
        IF k = name THEN [label |-> label, created |-> t, modified |-> t]
        ELSE meta[k]]

\* time.Time, in whole seconds; the zero Time is before every clock reading
ZeroTime == 0

\* Time.Format(time.RFC3339): the text of the seconds
FormatRFC3339(t) == ToString(t)

\* time.Parse(time.RFC3339, s): [ok, t]; a text that is no time fails
ParseRFC3339(s) ==
    IF \E t \in ZeroTime..MaxTime : FormatRFC3339(t) = s
    THEN [ok |-> TRUE, t |-> CHOOSE t \in ZeroTime..MaxTime : FormatRFC3339(t) = s]
    ELSE [ok |-> FALSE, t |-> ZeroTime]

\* GopassStore.GetItem: [ok, ID, Secret, ContentType, Label, Attributes, ...]
NoItem ==
    [ok |-> FALSE, ID |-> <<>>, Secret |-> <<>>, ContentType |-> "",
     Label |-> "", Attributes |-> EmptyMap, Created |-> ZeroTime,
     Modified |-> ZeroTime]

StoreGetItem(secs, collection, id) ==
    IF <<collection, id>> \notin DOMAIN secs
    THEN NoItem
    ELSE LET sec == secs[<<collection, id>>]
         IN [ok |-> TRUE,
             ID |-> id,
             Secret |-> sec.password,
             ContentType |-> IF contentTypeKey \in DOMAIN sec.kv
                             THEN sec.kv[contentTypeKey]
                             ELSE DefaultContentType,
             Label |-> IF labelKey \in DOMAIN sec.kv THEN sec.kv[labelKey] ELSE "",
             Attributes |-> Restrict(sec.kv,
                               {k \in DOMAIN sec.kv : ~HasPrefix(k, <<metaPrefix>>)}),
             Created |-> IF createdKey \in DOMAIN sec.kv
                                /\ ParseRFC3339(sec.kv[createdKey]).ok
                         THEN ParseRFC3339(sec.kv[createdKey]).t ELSE ZeroTime,
             Modified |-> IF modifiedKey \in DOMAIN sec.kv
                                 /\ ParseRFC3339(sec.kv[modifiedKey]).ok
                          THEN ParseRFC3339(sec.kv[modifiedKey]).t ELSE ZeroTime]

\* the secret CreateItem and UpdateItem write: the metadata keys are set
\* first, then every attribute key, so an attribute overwrites a metadata
\* key of the same name
ItemSecret(item) ==
    [password |-> item.Secret,
     kv |-> [k \in {labelKey, createdKey, modifiedKey, contentTypeKey}
                     \cup DOMAIN item.Attributes |->
                IF k \in DOMAIN item.Attributes THEN item.Attributes[k]
                ELSE IF k = labelKey THEN item.Label
                ELSE IF k = createdKey THEN FormatRFC3339(item.Created)
                ELSE IF k = modifiedKey THEN FormatRFC3339(item.Modified)
                ELSE item.ContentType]]

PutSecret(secs, key, sec) ==
    [k \in DOMAIN secs \cup {key} |-> IF k = key THEN sec ELSE secs[k]]

\* GopassStore.CreateItem, the item secret it writes
StoreCreateItem(secs, collection, item, t) ==
    PutSecret(secs, <<collection, item.ID>>,
        ItemSecret([item EXCEPT
            !.Created = IF item.Created = ZeroTime THEN t ELSE item.Created,
            !.Modified = t,
            !.ContentType = IF item.ContentType = "" THEN DefaultContentType
                            ELSE item.ContentType]))

\* GopassStore.CreateItem, "ensure collection exists"
StoreEnsureCollection(meta, secs, collection, t) ==
    IF StoreHasCollection(meta, secs, collection) THEN meta
    ELSE StoreCreateCollection(meta, collection, collection, t)

\* an update that writes the content type it was handed, empty or not
StoreUpdateItemBlank(secs, collection, id, item, t) ==
    LET existing == StoreGetItem(secs, collection, id)
    IN PutSecret(secs, <<collection, id>>,
        ItemSecret([item EXCEPT
            !.ID = id,
            !.Created = existing.Created,
            !.Modified = t]))

\* GopassStore.UpdateItem (the item exists)
StoreUpdateItem(secs, collection, id, item, t) ==
    LET existing == StoreGetItem(secs, collection, id)
    IN PutSecret(secs, <<collection, id>>,
        ItemSecret([item EXCEPT
            !.ID = id,
            !.Created = existing.Created,
            !.Modified = t,
            !.ContentType = IF item.ContentType = "" THEN existing.ContentType
                            ELSE item.ContentType]))

\* matchesAttributes: the subset match of a search
matchesAttributes(item, attrs) ==
    \A k \in DOMAIN attrs :
        (IF k \in DOMAIN item.Attributes THEN item.Attributes[k] ELSE "") = attrs[k]

\* GopassStore.SearchItems: the ids of the matching items
StoreSearchItems(secs, collection, attrs) ==
    {id \in StoreItems(secs, collection) :
        matchesAttributes(StoreGetItem(secs, collection, id), attrs)}

\* GopassStore.Collections: the first path segments, without the special ones
StoreCollections(meta, secs) ==
    {c \in DOMAIN meta \cup {q[1] : q \in DOMAIN secs} : ~HasPrefix(c, <<"_">>)}

\* GopassStore.GetAlias: [ok, name]
StoreGetAlias(als, alias) ==
    IF alias \in DOMAIN als /\ als[alias] # <<>>
    THEN [ok |-> TRUE, name |-> als[alias]]
    ELSE IF alias = <<"default">>
         THEN [ok |-> TRUE, name |-> <<"default">>]
         ELSE [ok |-> FALSE, name |-> <<>>]

\* a write-back that starts from an empty map and so forgets the other aliases
StoreSetAliasAlone(als, alias, collection) ==
    IF collection = <<>> THEN [a \in {} |-> <<>>]
    ELSE [a \in {alias} |-> collection]

\* GopassStore.SetAlias: read the aliases, update the one, write them back
StoreSetAlias(als, alias, collection) ==
    IF collection = <<>>
    THEN [a \in DOMAIN als \ {alias} |-> als[a]]
    ELSE [a \in DOMAIN als \cup {alias} |-> IF a = alias THEN collection ELSE als[a]]

\* a lock that flips the flag
StoreLockCollectionFlip(lk, name) ==
    IF name \in lk THEN lk \ {name} ELSE lk \cup {name}

\* GopassStore.LockCollection: locked[name] = true
StoreLockCollection(lk, name) == lk \cup {name}

\* GopassStore.UnlockCollection: locked[name] = false
StoreUnlockCollection(lk, name) == lk \ {name}

(***************************************************************************)
(* Handler calls, as the history variable "last" records them.             *)
(***************************************************************************)
NoSecret == [session |-> RootPath, parameters |-> <<>>, value |-> <<>>, contentType |-> ""]

NoCall ==
    [op |-> "none",        \* the method
     obj |-> RootPath,     \* the object path it was called on
     sess |-> 0,           \* the session it named (its number), 0 for none
     attrs |-> EmptyMap,   \* CreateItem: the Attributes property
     label |-> "",         \* CreateItem: the Label property
     plain |-> <<>>,       \* CreateItem / SetSecret: the client's plaintext
     replace |-> FALSE,    \* CreateItem: the replace flag
     path |-> RootPath,    \* the object path returned
     secret |-> NoSecret,  \* GetSecret: the Secret struct returned;
                           \* SetSecret: the Secret struct passed
     alias |-> <<>>,       \* CreateCollection: the alias argument
     again |-> FALSE,      \* Lock / Unlock: the call before was the same call
     alg |-> "",           \* OpenSession: the algorithm argument
     output |-> <<>>,      \* OpenSession: the output; Decrypt: the plaintext
     objects |-> <<>>,     \* Lock / Unlock / GetSecrets: the list of paths passed
     result |-> <<>>,      \* Lock / Unlock / SearchItems: the first list returned;
                           \* PathTests: what the two tests answered
     lockedList |-> <<>>,  \* SearchItems: the list of locked items returned
     secrets |-> EmptyMap, \* GetSecrets: the map returned
     fresh |-> FALSE,      \* CreateItem: a new item was inserted
     changed |-> FALSE,    \* the call changed the stored items
     err |-> NoError]      \* the bus error name returned

(***************************************************************************)
(* Sessions (internal/service/session.go, Service.OpenSession).            *)
(***************************************************************************)
NoSessionObject == [alg |-> "none", closed |-> FALSE, aesKey |-> <<>>, mu |-> "free"]

SessionRef(n) == [kind |-> "Session", n |-> n]

Unexport(b, paths) == Without(b, paths)

Export(b, path, ref) ==
    [p \in DOMAIN b \cup {path} |-> IF p = path THEN ref ELSE b[p]]

\* a lookup that finds every session ever created, closed or not
GetSessionStale(path) ==
    LET parsed == ParseSessionPath(path)
    IN IF parsed.ok /\ \E n \in 1..MaxSessions :
                          SessionId(n) = parsed.id /\ sess[n].alg # "none"
       THEN CHOOSE n \in 1..MaxSessions : SessionId(n) = parsed.id
       ELSE 0

\* SessionManager.GetSession: the number of the session, 0 when not found
GetSession(path) ==
    LET parsed == ParseSessionPath(path)
    IN IF parsed.ok /\ parsed.id \in sessions
       THEN CHOOSE n \in 1..MaxSessions : SessionId(n) = parsed.id
       ELSE 0

\* Service.OpenSession -> SessionManager.CreateSession -> crypto.NewSession
OpenSession(algorithm) ==
    /\ IF SupportedAlgorithm(algorithm)
       THEN /\ nextSession < MaxSessions
            /\ LET n == nextSession + 1
               IN /\ nextSession' = n
                  /\ sess' = [sess EXCEPT ![n] =
                        [alg |-> algorithm, closed |-> FALSE,
                         aesKey |-> IF algorithm = AlgorithmDHAES
                                    THEN DerivedKey(n) ELSE <<>>,
                         mu |-> "free"]]
                  /\ sessions' = sessions \cup {SessionId(n)}
                  /\ bus' = Export(bus, SessionPath(SessionId(n)), SessionRef(n))
                  /\ last' = [NoCall EXCEPT !.op = "OpenSession", !.sess = n,
                                            !.alg = algorithm,
                                            !.output = NewSessionOutput(algorithm, n),
                                            !.path = SessionPath(SessionId(n))]
       ELSE /\ UNCHANGED <<nextSession, sess, sessions, bus>>
            /\ last' = [NoCall EXCEPT !.op = "OpenSession", !.alg = algorithm,
                                      !.err = ErrNotSupported]
    /\ signals' = <<>>
    /\ UNCHANGED <<stop, collProps, lockVars, now, nameOwned, pending, locked, lost, storeVars, closeAll, closedRet, collections, collMu, items,
                   itemsProp, collectionsProp, nextItem>>

\* Session.close / closeWithoutCallback up to the callback: mark closed,
\* unexport, close the crypto session
CloseObject(s) ==
    [s EXCEPT !.closed = TRUE, !.aesKey = CryptoClose(s.alg, s.aesKey)]

\* Session.Close, called on the exported object: everything before onClose
\* takes the registry lock; the session's lock stays held
SessionClose(n) ==
    /\ SessionPath(SessionId(n)) \in DOMAIN bus
    /\ sess[n].mu = "free"
    /\ ~sess[n].closed
    /\ sess' = [sess EXCEPT ![n] = [CloseObject(sess[n]) EXCEPT !.mu = "Close"]]
    /\ bus' = Unexport(bus, {SessionPath(SessionId(n))})
    /\ signals' = <<>>
    /\ UNCHANGED <<stop, collProps, lockVars, now, nameOwned, pending, locked, lost, storeVars, sessions, closeAll, nextSession, closedRet,
                   collections, collMu, items, itemsProp, collectionsProp,
                   nextItem, last>>

\* SessionManager.CloseSession: the same, reached through the registry
CloseSession(n) ==
    /\ sess[n].alg # "none"
    /\ sess[n].mu = "free"
    /\ IF GetSession(SessionPath(SessionId(n))) = n /\ ~sess[n].closed
       THEN /\ sess' = [sess EXCEPT ![n] = [CloseObject(sess[n]) EXCEPT !.mu = "Close"]]
            /\ bus' = Unexport(bus, {SessionPath(SessionId(n))})
            /\ UNCHANGED <<last, closedRet>>
       ELSE /\ UNCHANGED <<sess, bus>>
            /\ last' = [NoCall EXCEPT !.op = "CloseSession", !.sess = n]
            /\ closedRet' = IF sess[n].closed THEN closedRet \cup {n} ELSE closedRet
    /\ signals' = <<>>
    /\ UNCHANGED <<stop, collProps, lockVars, now, nameOwned, pending, locked, lost, storeVars, sessions, closeAll, nextSession,
                   collections, collMu, items, itemsProp, collectionsProp, nextItem>>

\* Session.close, the onClose callback (delete from the registry under its
\* lock), and the return of Close
SessionCloseReturn(n) ==
    /\ sess[n].mu = "Close"
    /\ sessions' = sessions \ {SessionId(n)}
    /\ sess' = [sess EXCEPT ![n].mu = "free"]
    /\ closedRet' = closedRet \cup {n}
    /\ last' = [NoCall EXCEPT !.op = "Close", !.sess = n]
    /\ signals' = <<>>
    /\ UNCHANGED <<stop, collProps, lockVars, now, nameOwned, pending, locked, lost, storeVars, closeAll, nextSession, collections, collMu,
                   items, bus, itemsProp, collectionsProp, nextItem>>

\* Session.Close on a session that is closed already (a call dispatched
\* before the object was unexported): returns at once
SessionCloseClosed(n) ==
    /\ sess[n].alg # "none"
    /\ sess[n].mu = "free"
    /\ sess[n].closed
    /\ closedRet' = closedRet \cup {n}
    /\ last' = [NoCall EXCEPT !.op = "Close", !.sess = n]
    /\ signals' = <<>>
    /\ UNCHANGED <<stop, collProps, lockVars, now, nameOwned, pending, locked, lost, storeVars, sessions, sess, closeAll, nextSession,
                   collections, collMu, items, bus, itemsProp, collectionsProp,
                   nextItem>>

\* SessionManager.CloseAll: snapshot and reset the registry under its lock
NoCloseAll == [active |-> FALSE, todo |-> {}, snapshot |-> {}]

CloseAllBegin ==
    /\ ~closeAll.active
    /\ LET snap == {n \in 1..MaxSessions : SessionId(n) \in sessions}
       IN closeAll' = [active |-> TRUE, todo |-> snap, snapshot |-> snap]
    /\ sessions' = {}
    /\ signals' = <<>>
    /\ UNCHANGED <<collProps, lockVars, now, nameOwned, pending, locked, lost, storeVars, sess, nextSession, closedRet, collections,
                   collMu, items, bus, itemsProp, collectionsProp, nextItem, last>>

\* SessionManager.CloseAll: closeWithoutCallback on one snapshotted session
CloseAllStep(n) ==
    /\ closeAll.active
    /\ n \in closeAll.todo
    /\ sess[n].mu = "free"
    /\ IF sess[n].closed
       THEN UNCHANGED <<sess, bus>>
       ELSE /\ sess' = [sess EXCEPT ![n] = CloseObject(sess[n])]
            /\ bus' = Unexport(bus, {SessionPath(SessionId(n))})
    /\ closeAll' = [closeAll EXCEPT !.todo = closeAll.todo \ {n}]
    /\ UNCHANGED <<collProps, lockVars, now, nameOwned, pending, locked, lost, storeVars, sessions, nextSession, closedRet, collections,
                   collMu, items, itemsProp, collectionsProp, signals, nextItem, last>>

\* SessionManager.CloseAll returns
CloseAllReturn ==
    /\ closeAll.active
    /\ closeAll.todo = {}
    /\ closeAll' = NoCloseAll
    /\ closedRet' = closedRet \cup closeAll.snapshot
    /\ last' = [NoCall EXCEPT !.op = "CloseAll"]
    /\ signals' = <<>>
    /\ UNCHANGED <<collProps, lockVars, now, nameOwned, pending, locked, lost, storeVars, sessions, sess, nextSession, collections,
                   collMu, items, bus, itemsProp, collectionsProp, nextItem>>

(***************************************************************************)
(* Collections and items (internal/service/collection.go, the Item part of *)
(* session.go).                                                            *)
(***************************************************************************)
CollectionRef(name) == [kind |-> "Collection", name |-> name]
ItemRef(collection, id) == [kind |-> "Item", collection |-> collection, id |-> id]

\* the bus library finds an object of that kind exported at the path
Exported(path, kind) == path \in DOMAIN bus /\ bus[path].kind = kind

\* Collection.getItemPaths
getItemPaths(secs, name) == {ItemPath(name, id) : id \in StoreItems(secs, name)}

\* attributesMatch: the two maps are equal
attributesMatch(a, b) ==
    /\ Cardinality(DOMAIN a) = Cardinality(DOMAIN b)
    /\ \A k \in DOMAIN a : k \in DOMAIN b /\ b[k] = a[k]

\* ItemManager.GetOrCreate: the registry and the bus with the item exported
GetOrCreateItems(reg, collection, id) == reg \cup {ItemPath(collection, id)}

GetOrCreateBus(b, reg, collection, id) ==
    IF ItemPath(collection, id) \in reg THEN b
    ELSE Export(b, ItemPath(collection, id), ItemRef(collection, id))

\* ItemManager.RemoveCollection: the registered paths it removes and unexports
RemoveCollectionPaths(reg, collection) ==
    LET prefix == CollectionPath(collection) \o <<"/">>
    IN {path \in reg : Len(path) > Len(prefix) /\ HasPrefix(path, prefix)}

\* Session.Decrypt: [err, plain], err one of "", "closed", "crypto"
SessionDecrypt(s, params, value) ==
    IF s.closed THEN [err |-> "closed", plain |-> <<>>]
    ELSE LET r == IF s.alg = AlgorithmDHAES THEN DHDecrypt(s.aesKey, params, value)
                  ELSE PlainDecrypt(params, value)
         IN [err |-> IF r.ok THEN "" ELSE "crypto", plain |-> r.plain]

\* Session.Encrypt with the IV rand.Read returned: [err, params, value]
SessionEncrypt(s, iv, plaintext) ==
    IF s.closed THEN [err |-> "closed", params |-> <<>>, value |-> <<>>]
    ELSE LET r == IF s.alg = AlgorithmDHAES THEN DHEncrypt(s.aesKey, iv, plaintext)
                  ELSE PlainEncrypt(plaintext)
         IN [err |-> "", params |-> r.params, value |-> r.value]

\* what a client puts on the wire for session n: the plaintext itself on a
\* plain session, its encryption under the negotiated key on a DH session
\* (under some other key when the client got it wrong)
ClientIV == Repeat(7, BlockSize)
WrongKey == Repeat(200, AESKeyLen)

ClientSecret(n, plaintext, good, contentType) ==
    LET r == IF sess[n].alg = AlgorithmDHAES
             THEN DHEncrypt(IF good THEN DerivedKey(n) ELSE WrongKey, ClientIV, plaintext)
             ELSE PlainEncrypt(plaintext)
    IN [session |-> SessionPath(SessionId(n)), parameters |-> r.params,
        value |-> r.value, contentType |-> contentType]

\* what the client reads out of a Secret struct it got for session n
ClientDecrypt(n, secret) ==
    IF sess[n].alg = AlgorithmDHAES
    THEN DHDecrypt(DerivedKey(n), secret.parameters, secret.value)
    ELSE PlainDecrypt(secret.parameters, secret.value)

ItemCreatedSignal(name, path) == <<CollectionPath(name), "ItemCreated", path>>
ItemChangedSignal(name, path) == <<CollectionPath(name), "ItemChanged", path>>
ItemDeletedSignal(name, path) == <<CollectionPath(name), "ItemDeleted", path>>
CollectionCreatedSignal(path) == <<"/org/freedesktop/secrets", "CollectionCreated", path>>
CollectionDeletedSignal(path) == <<"/org/freedesktop/secrets", "CollectionDeleted", path>>

\* Collection.CreateItem, from the call to the emission of the signal.  When
\* a new item is inserted the handler still has to refresh the Items
\* property (CreateItemReturn) and keeps the collection's lock until then;
\* what it returns is settled here.
CreateItem(path, label, attrs, n, good, plaintext, contentType, replace) ==
    LET call == [NoCall EXCEPT !.op = "CreateItem", !.obj = path, !.sess = n,
                               !.attrs = attrs, !.label = label,
                               !.plain = plaintext, !.replace = replace]
    IN
    IF ~Exported(path, "Collection")
    THEN /\ last' = [call EXCEPT !.err = BusDispatchError]
         /\ signals' = <<>>
         /\ UNCHANGED <<stop, collProps, lockVars, now, nameOwned, pending, locked, lost, storeVars, sessionVars, graphVars, nextItem>>
    ELSE
    LET name == bus[path].name
        secret == ClientSecret(n, plaintext, good, contentType)
        sn == GetSession(secret.session)
    IN
    /\ ~collMu[name]
    /\ IF sn = 0
       THEN /\ last' = [call EXCEPT !.err = ErrNoSession]
            /\ signals' = <<>>
            /\ UNCHANGED <<stop, collProps, lockVars, now, nameOwned, pending, locked, lost, storeVars, sessionVars, graphVars, nextItem>>
       ELSE
       /\ sess[sn].mu = "free"
       /\ LET dec == SessionDecrypt(sess[sn], secret.parameters, secret.value)
              existing ==
                  IF DOMAIN attrs # {}
                  THEN {id \in StoreSearchItems(itemSecs, name, attrs) :
                          attributesMatch(StoreGetItem(itemSecs, name, id).Attributes,
                                          attrs)}
                  ELSE {}
          IN
          IF dec.err # ""
          THEN /\ last' = [call EXCEPT !.err = ErrNotSupported]
               /\ signals' = <<>>
               /\ UNCHANGED <<stop, collProps, lockVars, now, nameOwned, pending, locked, lost, storeVars, sessionVars, graphVars, nextItem>>
          ELSE IF existing # {}
          THEN \E id \in existing :
               LET existingItem == StoreGetItem(itemSecs, name, id)
                   itemPath == ItemPath(name, id)
               IN
               IF replace
               THEN /\ itemSecs' = StoreUpdateItem(itemSecs, name, id,
                           [existingItem EXCEPT
                               !.Secret = dec.plain,
                               !.ContentType = secret.contentType,
                               !.Label = IF label # "" THEN label ELSE existingItem.Label],
                           now)
                    /\ signals' = <<ItemChangedSignal(name, itemPath)>>
                    /\ last' = [call EXCEPT !.path = itemPath,
                                            !.changed = (itemSecs' # itemSecs)]
                    /\ UNCHANGED <<stop, collProps, lockVars, now, nameOwned, pending, locked, lost, collMeta, aliases, sessionVars, graphVars, nextItem>>
               ELSE /\ items' = GetOrCreateItems(items, name, id)
                    /\ bus' = GetOrCreateBus(bus, items, name, id)
                    /\ signals' = <<>>
                    /\ last' = [call EXCEPT !.path = itemPath]
                    /\ UNCHANGED <<stop, collProps, lockVars, now, nameOwned, pending, locked, lost, storeVars, sessionVars, collections, collMu,
                                   itemsProp, collectionsProp, nextItem>>
          ELSE /\ nextItem < MaxItems
               /\ LET id == ItemId(nextItem + 1)
                      itemPath == ItemPath(name, id)
                      item == [NoItem EXCEPT !.ID = id, !.Label = label,
                                  !.Secret = dec.plain,
                                  !.ContentType = secret.contentType,
                                  !.Attributes = attrs]
                  IN /\ nextItem' = nextItem + 1
                     /\ collMeta' = StoreEnsureCollection(collMeta, itemSecs, name, now)
                     /\ itemSecs' = StoreCreateItem(itemSecs, name, item, now)
                     /\ items' = GetOrCreateItems(items, name, id)
                     /\ bus' = GetOrCreateBus(bus, items, name, id)
                     /\ signals' = <<ItemCreatedSignal(name, itemPath)>>
                     /\ collMu' = [collMu EXCEPT ![name] = TRUE]
                     /\ last' = [call EXCEPT !.path = itemPath, !.fresh = TRUE,
                                             !.changed = TRUE]
                     /\ UNCHANGED <<stop, collProps, lockVars, now, nameOwned, pending, locked, lost, aliases, sessionVars, collections, itemsProp,
                                    collectionsProp>>

\* Collection.CreateItem after a new item: refreshItems, then return
CreateItemReturn(name) ==
    /\ collMu[name]
    /\ itemsProp' = [itemsProp EXCEPT ![name] = getItemPaths(itemSecs, name)]
    /\ collMu' = [collMu EXCEPT ![name] = FALSE]
    /\ UNCHANGED <<stop, collProps, lockVars, now, nameOwned, pending, locked, lost, storeVars, sessionVars, collections, items, bus,
                   collectionsProp, signals, nextItem, last>>

\* ParseItemPath: [ok, collection, id]
ParseItemPath(path) ==
    LET prefix == CollectionBasePath \o <<"/">>
        parts == SplitN2(TrimPrefix(path, prefix))
    IN IF HasPrefix(path, prefix) /\ Len(parts) = 2
       THEN [ok |-> TRUE, collection |-> parts[1], id |-> parts[2]]
       ELSE [ok |-> FALSE, collection |-> <<>>, id |-> <<>>]

\* a refresh that leaves the Items property as it was
RefreshItemsStale(prop, secs, name) == prop

\* Collection.refreshItems, as Item.Delete calls it: only for a collection
\* the registry holds
RefreshItems(prop, secs, name) ==
    IF name \in collections
    THEN [prop EXCEPT ![name] = getItemPaths(secs, name)]
    ELSE prop

\* Item.Delete
ItemDelete(path) ==
    LET call == [NoCall EXCEPT !.op = "Delete", !.obj = path]
    IN
    IF ~Exported(path, "Item")
    THEN /\ last' = [call EXCEPT !.err = BusDispatchError]
         /\ signals' = <<>>
         /\ UNCHANGED <<stop, collProps, lockVars, now, nameOwned, pending, locked, lost, storeVars, sessionVars, graphVars, nextItem>>
    ELSE
    LET collection == bus[path].collection
        id == bus[path].id
    IN
    IF <<collection, id>> \notin DOMAIN itemSecs
    THEN /\ last' = [call EXCEPT !.err = ErrNoSuchObject]
         /\ signals' = <<>>
         /\ UNCHANGED <<stop, collProps, lockVars, now, nameOwned, pending, locked, lost, storeVars, sessionVars, graphVars, nextItem>>
    ELSE /\ itemSecs' = Without(itemSecs, {<<collection, id>>})
         /\ items' = items \ {path}
         /\ bus' = Unexport(bus, {path})
         /\ itemsProp' = RefreshItems(itemsProp, itemSecs', collection)
         /\ signals' = <<ItemDeletedSignal(collection, path)>>
         /\ last' = [call EXCEPT !.changed = TRUE]
         /\ UNCHANGED <<stop, collProps, lockVars, now, nameOwned, pending, locked, lost, collMeta, aliases, sessionVars, collections, collMu,
                        collectionsProp, nextItem>>

\* Item.GetSecret
ItemGetSecret(path, n, iv) ==
    LET sessionPath == SessionPath(SessionId(n))
        call == [NoCall EXCEPT !.op = "GetSecret", !.obj = path, !.sess = n]
        sn == GetSession(sessionPath)
    IN
    /\ IF ~Exported(path, "Item")
       THEN last' = [call EXCEPT !.err = BusDispatchError]
       ELSE IF sn = 0
       THEN last' = [call EXCEPT !.err = ErrNoSession]
       ELSE
       LET item == StoreGetItem(itemSecs, bus[path].collection, bus[path].id)
           enc == SessionEncrypt(sess[sn], iv, item.Secret)
       IN /\ item.ok => sess[sn].mu = "free"
          /\ IF ~item.ok
             THEN last' = [call EXCEPT !.err = ErrNoSuchObject]
             ELSE IF enc.err # ""
             THEN last' = [call EXCEPT !.err = ErrNotSupported]
             ELSE last' = [call EXCEPT !.secret =
                      [session |-> sessionPath, parameters |-> enc.params,
                       value |-> enc.value, contentType |-> item.ContentType]]
    /\ signals' = <<>>
    /\ UNCHANGED <<stop, collProps, lockVars, now, nameOwned, pending, locked, lost, storeVars, sessionVars, graphVars, nextItem>>

\* Item.SetSecret
ItemSetSecret(path, n, good, plaintext, contentType) ==
    LET secret == ClientSecret(n, plaintext, good, contentType)
        call == [NoCall EXCEPT !.op = "SetSecret", !.obj = path, !.sess = n,
                               !.plain = plaintext, !.secret = secret]
        sn == GetSession(secret.session)
    IN
    IF ~Exported(path, "Item")
    THEN /\ last' = [call EXCEPT !.err = BusDispatchError]
         /\ signals' = <<>>
         /\ UNCHANGED <<stop, collProps, lockVars, now, nameOwned, pending, locked, lost, storeVars, sessionVars, graphVars, nextItem>>
    ELSE IF sn = 0
    THEN /\ last' = [call EXCEPT !.err = ErrNoSession]
         /\ signals' = <<>>
         /\ UNCHANGED <<stop, collProps, lockVars, now, nameOwned, pending, locked, lost, storeVars, sessionVars, graphVars, nextItem>>
    ELSE
    LET dec == SessionDecrypt(sess[sn], secret.parameters, secret.value)
        collection == bus[path].collection
        id == bus[path].id
        item == StoreGetItem(itemSecs, collection, id)
    IN
    /\ sess[sn].mu = "free"
    /\ IF dec.err # "" \/ ~item.ok
       THEN /\ last' = [call EXCEPT !.err =
                        IF dec.err # "" THEN ErrNotSupported ELSE ErrNoSuchObject]
            /\ signals' = <<>>
            /\ UNCHANGED <<stop, collProps, lockVars, now, nameOwned, pending, locked, lost, storeVars, sessionVars, graphVars, nextItem>>
       ELSE /\ itemSecs' = StoreUpdateItem(itemSecs, collection, id,
                   [item EXCEPT !.Secret = dec.plain,
                                !.ContentType = secret.contentType], now)
            /\ signals' = <<ItemChangedSignal(collection, path)>>
            /\ last' = [call EXCEPT !.changed = (itemSecs' # itemSecs)]
            /\ UNCHANGED <<stop, collProps, lockVars, now, nameOwned, pending, locked, lost, collMeta, aliases, sessionVars, graphVars, nextItem>>

\* a write of an Item property: the bus library calls setLabel / setAttributes
\* when the object is exported at the path
ItemSetProperty(path, op, attrs, label) ==
    LET call == [NoCall EXCEPT !.op = op, !.obj = path, !.attrs = attrs,
                               !.label = label]
    IN
    IF ~Exported(path, "Item")
    THEN /\ last' = [call EXCEPT !.err = BusDispatchError]
         /\ signals' = <<>>
         /\ UNCHANGED <<stop, collProps, lockVars, now, nameOwned, pending, locked, lost, storeVars, sessionVars, graphVars, nextItem>>
    ELSE
    LET collection == bus[path].collection
        id == bus[path].id
        item == StoreGetItem(itemSecs, collection, id)
    IN
    IF ~item.ok
    THEN /\ last' = [call EXCEPT !.err = ErrNoSuchObject]
         /\ signals' = <<>>
         /\ UNCHANGED <<stop, collProps, lockVars, now, nameOwned, pending, locked, lost, storeVars, sessionVars, graphVars, nextItem>>
    ELSE /\ itemSecs' = StoreUpdateItem(itemSecs, collection, id,
                IF op = "SetAttributes" THEN [item EXCEPT !.Attributes = attrs]
                ELSE [item EXCEPT !.Label = label], now)
         /\ signals' = <<ItemChangedSignal(collection, path)>>
         /\ last' = [call EXCEPT !.changed = (itemSecs' # itemSecs)]
         /\ UNCHANGED <<stop, collProps, lockVars, now, nameOwned, pending, locked, lost, collMeta, aliases, sessionVars, graphVars, nextItem>>

\* Item.setAttributes
setAttributes(path, attrs) == ItemSetProperty(path, "SetAttributes", attrs, "")

\* Item.setLabel
setLabel(path, label) == ItemSetProperty(path, "SetLabel", EmptyMap, label)

\* Service.GetSecrets for a list holding the one item path, when no other
\* handler runs between its session lookup and its loop
GetSecrets(path, n, iv) ==
    LET session == SessionPath(SessionId(n))
        call == [NoCall EXCEPT !.op = "GetSecrets", !.obj = path, !.sess = n]
        sn == GetSession(session)
        parsed == ParseItemPath(path)
    IN
    /\ IF sn = 0
       THEN last' = [call EXCEPT !.err = ErrNoSession]
       ELSE
       LET item == StoreGetItem(itemSecs, parsed.collection, parsed.id)
           enc == SessionEncrypt(sess[sn], iv, item.Secret)
       IN /\ (parsed.ok /\ item.ok) => sess[sn].mu = "free"
          /\ IF ~parsed.ok \/ ~item.ok \/ enc.err # ""
             THEN last' = call
             ELSE last' = [call EXCEPT !.path = path, !.secret =
                      [session |-> session, parameters |-> enc.params,
                       value |-> enc.value, contentType |-> item.ContentType]]
    /\ signals' = <<>>
    /\ UNCHANGED <<stop, collProps, lockVars, now, nameOwned, pending, locked, lost, storeVars, sessionVars, graphVars, nextItem>>

\* no GetSecrets / GetSecret call in flight
NoPending ==
    [active |-> FALSE, op |-> "", objects |-> <<>>, sess |-> 0, sn |-> 0,
     item |-> NoItem]

\* a loop that emits every path that parses, whether its item exists or not
GetSecretsLoopParsed(secs, s, session, objects, iv) ==
    LET item(p) == StoreGetItem(secs, ParseItemPath(p).collection, ParseItemPath(p).id)
        enc(p) == SessionEncrypt(s, iv, item(p).Secret)
        emitted == {p \in Range(objects) : ParseItemPath(p).ok /\ enc(p).err = ""}
    IN [p \in emitted |->
           [session |-> session, parameters |-> enc(p).params,
            value |-> enc(p).value, contentType |-> item(p).ContentType]]

\* Service.GetSecrets, its loop: the map of the paths that parse, whose item
\* the store returns and whose secret the session encrypts (every Encrypt
\* draws the IV iv)
GetSecretsLoop(secs, s, session, objects, iv) ==
    LET item(p) == StoreGetItem(secs, ParseItemPath(p).collection, ParseItemPath(p).id)
        enc(p) == SessionEncrypt(s, iv, item(p).Secret)
        emitted == {p \in Range(objects) :
                       ParseItemPath(p).ok /\ item(p).ok /\ enc(p).err = ""}
    IN [p \in emitted |->
           [session |-> session, parameters |-> enc(p).params,
            value |-> enc(p).value, contentType |-> item(p).ContentType]]

\* Service.GetSecrets up to its loop: the session is resolved once.  The
\* handler holds the service's read lock, which Session.Close does not take.
GetSecretsBegin(objects, n) ==
    LET session == SessionPath(SessionId(n))
        sn == GetSession(session)
    IN /\ ~pending.active
       /\ IF sn = 0
          THEN /\ last' = [NoCall EXCEPT !.op = "GetSecrets", !.objects = objects,
                                         !.sess = n, !.err = ErrNoSession]
               /\ pending' = pending
          ELSE /\ pending' = [NoPending EXCEPT !.active = TRUE, !.op = "GetSecrets",
                                                !.objects = objects, !.sess = n,
                                                !.sn = sn]
               /\ last' = last
       /\ signals' = <<>>
       /\ UNCHANGED <<stop, collProps, lockVars, now, nameOwned, locked, lost, storeVars, sessionVars, graphVars,
                      nextItem>>

\* Service.GetSecrets, its loop and its return; Session.Encrypt waits for the
\* session's lock
GetSecretsFinish(iv) ==
    LET s == sess[pending.sn]
        found == {p \in Range(pending.objects) :
                     /\ ParseItemPath(p).ok
                     /\ StoreGetItem(itemSecs, ParseItemPath(p).collection,
                                     ParseItemPath(p).id).ok}
    IN /\ pending.active
       /\ pending.op = "GetSecrets"
       /\ found # {} => s.mu = "free"
       /\ last' = [NoCall EXCEPT !.op = "GetSecrets", !.objects = pending.objects,
                                 !.sess = pending.sess,
                                 !.secrets = GetSecretsLoop(itemSecs, s,
                                     SessionPath(SessionId(pending.sess)),
                                     pending.objects, iv)]
       /\ pending' = NoPending
       /\ signals' = <<>>
       /\ UNCHANGED <<stop, collProps, lockVars, now, nameOwned, locked, lost, storeVars, sessionVars, graphVars,
                      nextItem>>

\* Item.GetSecret up to Session.Encrypt: the session is resolved and the item
\* is read; the handler holds the item's read lock, which Session.Close does
\* not take
ItemGetSecretBegin(path, n) ==
    LET sessionPath == SessionPath(SessionId(n))
        call == [NoCall EXCEPT !.op = "GetSecret", !.obj = path, !.sess = n]
        sn == GetSession(sessionPath)
    IN /\ ~pending.active
       /\ IF ~Exported(path, "Item")
          THEN /\ last' = [call EXCEPT !.err = BusDispatchError]
               /\ pending' = pending
          ELSE IF sn = 0
          THEN /\ last' = [call EXCEPT !.err = ErrNoSession]
               /\ pending' = pending
          ELSE
          LET item == StoreGetItem(itemSecs, bus[path].collection, bus[path].id)
          IN IF ~item.ok
             THEN /\ last' = [call EXCEPT !.err = ErrNoSuchObject]
                  /\ pending' = pending
             ELSE /\ pending' = [NoPending EXCEPT !.active = TRUE, !.op = "GetSecret",
                                                   !.objects = <<path>>, !.sess = n,
                                                   !.sn = sn, !.item = item]
                  /\ last' = last
       /\ signals' = <<>>
       /\ UNCHANGED <<stop, collProps, lockVars, now, nameOwned, locked, lost, storeVars, sessionVars, graphVars,
                      nextItem>>

\* Item.GetSecret, Session.Encrypt and the return; Encrypt waits for the
\* session's lock
ItemGetSecretFinish(iv) ==
    LET s == sess[pending.sn]
        enc == SessionEncrypt(s, iv, pending.item.Secret)
        call == [NoCall EXCEPT !.op = "GetSecret", !.obj = pending.objects[1],
                               !.sess = pending.sess]
    IN /\ pending.active
       /\ pending.op = "GetSecret"
       /\ s.mu = "free"
       /\ last' = IF enc.err # ""
                  THEN [call EXCEPT !.err = ErrNotSupported]
                  ELSE [call EXCEPT !.secret =
                           [session |-> SessionPath(SessionId(pending.sess)),
                            parameters |-> enc.params, value |-> enc.value,
                            contentType |-> pending.item.ContentType]]
       /\ pending' = NoPending
       /\ signals' = <<>>
       /\ UNCHANGED <<stop, collProps, lockVars, now, nameOwned, locked, lost, storeVars, sessionVars, graphVars,
                      nextItem>>

\* SanitizeName: "/", "\" and " " become "_"
SanitizeName(name) ==
    [i \in 1..Len(name) |-> IF name[i] \in {"/", "\\", " "} THEN "_" ELSE name[i]]

\* CollectionManager.GetPaths
GetPaths(reg) == {CollectionPath(name) : name \in reg}

\* ItemManager.ExportAllItems: every stored item of the collection registered
ExportAllItems(reg, secs, name) == reg \cup getItemPaths(secs, name)

ExportAllItemsBus(b, reg, secs, name) ==
    [p \in DOMAIN b \cup getItemPaths(secs, name) |->
        IF p \in DOMAIN b /\ (p \in reg \/ p \notin getItemPaths(secs, name)) THEN b[p]
        ELSE LET parsed == ParseItemPath(p)
             IN ItemRef(name, CHOOSE id \in StoreItems(secs, name) :
                                   ItemPath(name, id) = p)]

\* Collection.Delete
CollectionDelete(path) ==
    LET call == [NoCall EXCEPT !.op = "CollectionDelete", !.obj = path]
    IN
    IF ~Exported(path, "Collection")
    THEN /\ last' = [call EXCEPT !.err = BusDispatchError]
         /\ signals' = <<>>
         /\ UNCHANGED <<stop, collProps, lockVars, now, nameOwned, pending, locked, lost, storeVars, sessionVars, graphVars, nextItem>>
    ELSE
    LET name == bus[path].name
        removed == RemoveCollectionPaths(items, name)
    IN
    /\ ~collMu[name]
    /\ IF ~StoreHasCollection(collMeta, itemSecs, name)
       THEN /\ last' = [call EXCEPT !.err = ErrNoSuchObject]
            /\ signals' = <<>>
            /\ UNCHANGED <<stop, collProps, lockVars, now, nameOwned, pending, locked, lost, storeVars, sessionVars, graphVars, nextItem>>
       ELSE /\ collMeta' = Without(collMeta, {name})
            /\ itemSecs' = Without(itemSecs, {q \in DOMAIN itemSecs : q[1] = name})
            /\ bus' = Unexport(bus, {CollectionPath(name)} \cup removed)
            /\ items' = items \ removed
            /\ signals' = <<CollectionDeletedSignal(CollectionPath(name))>>
            /\ last' = [call EXCEPT !.path = CollectionPath(name),
                                            !.changed = (itemSecs' # itemSecs)]
            /\ UNCHANGED <<stop, collProps, lockVars, now, nameOwned, pending, locked, lost, aliases, sessionVars, collections, collMu,
                           itemsProp, collectionsProp, nextItem>>

\* a lookup that asks the store, where Collection.Delete has removed the name
CollectionManagerGetStore(name) == StoreHasCollection(collMeta, itemSecs, name)

\* CollectionManager.Get: the registry holds the name
CollectionManagerGet(name) == name \in collections

\* Service.CreateCollection
CreateCollection(label, alias) ==
    LET name == SanitizeName(IF alias # <<>> THEN alias
                             ELSE IF label # <<>> THEN label
                             ELSE <<"collection">>)
        call == [NoCall EXCEPT !.op = "CreateCollection", !.obj = name,
                               !.alias = alias]
    IN
    IF CollectionManagerGet(name)
    THEN /\ last' = [call EXCEPT !.err = ErrAlreadyExists]
         /\ signals' = <<>>
         /\ UNCHANGED <<stop, collProps, lockVars, now, nameOwned, pending, locked, lost, storeVars, sessionVars, graphVars, nextItem>>
    ELSE /\ collMeta' = StoreCreateCollection(collMeta, name, label, now)
         /\ collections' = collections \cup {name}
         /\ collMu' = [c \in collections' |-> IF c = name THEN FALSE ELSE collMu[c]]
         /\ itemsProp' = [c \in collections' |->
                IF c = name THEN getItemPaths(itemSecs, name) ELSE itemsProp[c]]
         /\ items' = ExportAllItems(items, itemSecs, name)
         /\ bus' = Export(ExportAllItemsBus(bus, items, itemSecs, name),
                          CollectionPath(name), CollectionRef(name))
         /\ aliases' = IF alias # <<>> THEN StoreSetAlias(aliases, alias, name)
                       ELSE aliases
         /\ signals' = <<CollectionCreatedSignal(CollectionPath(name))>>
         /\ collectionsProp' = GetPaths(collections')
         /\ last' = [call EXCEPT !.path = CollectionPath(name)]
         /\ UNCHANGED <<stop, collProps, lockVars, now, nameOwned, pending, locked, lost, itemSecs, sessionVars, nextItem>>

(***************************************************************************)
(* The other methods of the Service object (Service.ReadAlias, SetAlias,   *)
(* Lock, Unlock, SearchItems).  Each runs under the service's lock.        *)
(***************************************************************************)
\* ParseCollectionPath: [ok, name], the name being the first segment
ParseCollectionPath(path) ==
    LET prefix == CollectionBasePath \o <<"/">>
    IN IF HasPrefix(path, prefix)
       THEN [ok |-> TRUE, name |-> SplitN2(TrimPrefix(path, prefix))[1]]
       ELSE [ok |-> FALSE, name |-> <<>>]

\* IsCollectionPath: the prefix, then one segment without "/"
IsCollectionPath(path) ==
    LET prefix == CollectionBasePath \o <<"/">>
    IN HasPrefix(path, prefix) /\ ~Contains(TrimPrefix(path, prefix), "/")

\* the orders in which a loop over a Go map can append the elements of S
\* a test that splits the rest at its first "/" only
IsItemPathSplitN(path) ==
    LET prefix == CollectionBasePath \o <<"/">>
        parts == SplitN2(TrimPrefix(path, prefix))
    IN HasPrefix(path, prefix)
       /\ Len(parts) = 2 /\ parts[1] # <<>> /\ parts[2] # <<>>

\* IsItemPath: the prefix, then two segments, neither of them empty
IsItemPath(path) ==
    LET prefix == CollectionBasePath \o <<"/">>
        parts == Split(TrimPrefix(path, prefix))
    IN HasPrefix(path, prefix)
       /\ Len(parts) = 2 /\ parts[1] # <<>> /\ parts[2] # <<>>

\* a caller asks both tests about a path
PathTests(path) ==
    /\ last.op = "none"
    /\ last' = [NoCall EXCEPT !.op = "PathTests", !.obj = path,
                   !.result = <<IsCollectionPath(path), IsItemPath(path)>>]
    /\ signals' = <<>>
    /\ UNCHANGED <<stop, collProps, lockVars, now, nameOwned, pending, locked, lost, storeVars, sessionVars, graphVars,
                   nextItem>>

Orders(S) ==
    {s \in [1..Cardinality(S) -> S] : \A x \in S : \E i \in 1..Cardinality(S) : s[i] = x}

\* Service.ReadAlias: the path it returns (it returns no error)
ReadAliasPath(als, name) ==
    IF StoreGetAlias(als, name).ok
    THEN CollectionPath(StoreGetAlias(als, name).name)
    ELSE RootPath

ReadAlias(name) ==
    /\ last' = [NoCall EXCEPT !.op = "ReadAlias", !.alias = name,
                              !.path = ReadAliasPath(aliases, name)]
    /\ signals' = <<>>
    /\ UNCHANGED <<stop, collProps, lockVars, now, nameOwned, pending, locked, lost, storeVars, sessionVars, graphVars, nextItem>>

\* Service.SetAlias
SetAlias(name, collection) ==
    LET call == [NoCall EXCEPT !.op = "SetAlias", !.alias = name, !.obj = collection]
        parsed == ParseCollectionPath(collection)
    IN
    /\ IF collection = RootPath
       THEN /\ aliases' = StoreSetAlias(aliases, name, <<>>)
            /\ last' = call
       ELSE IF ~parsed.ok
       THEN /\ aliases' = aliases
            /\ last' = [call EXCEPT !.err = ErrNoSuchObject]
       ELSE /\ aliases' = StoreSetAlias(aliases, name, parsed.name)
            /\ last' = call
    /\ signals' = <<>>
    /\ UNCHANGED <<stop, collProps, lockVars, now, nameOwned, pending, locked, lost, collMeta, itemSecs, sessionVars, graphVars,
                   nextItem>>

\* the loop of Service.Lock over the recognised paths
RECURSIVE LockAll(_, _)
LockAll(lk, paths) ==
    IF paths = <<>> THEN lk
    ELSE LockAll(StoreLockCollection(lk, ParseCollectionPath(Head(paths)).name),
                 Tail(paths))

\* the loop of Service.Unlock over the recognised paths
RECURSIVE UnlockAll(_, _)
UnlockAll(lk, paths) ==
    IF paths = <<>> THEN lk
    ELSE UnlockAll(StoreUnlockCollection(lk, ParseCollectionPath(Head(paths)).name),
                   Tail(paths))

\* Service.Lock
Lock(objects) ==
    LET recognised == SelectSeq(objects, IsCollectionPath)
    IN /\ locked' = LockAll(locked, recognised)
       /\ last' = [NoCall EXCEPT !.op = "Lock", !.objects = objects,
                                 !.result = recognised, !.path = RootPath,
                                 !.again = (last.op = "Lock" /\ last.objects = objects)]
       /\ signals' = <<>>
       /\ UNCHANGED <<stop, collProps, lockVars, now, nameOwned, pending, lost, storeVars, sessionVars, graphVars, nextItem>>

\* Service.Unlock
Unlock(objects) ==
    LET recognised == SelectSeq(objects, IsCollectionPath)
    IN /\ locked' = UnlockAll(locked, recognised)
       /\ last' = [NoCall EXCEPT !.op = "Unlock", !.objects = objects,
                                 !.result = recognised, !.path = RootPath,
                                 !.again = (last.op = "Unlock" /\ last.objects = objects)]
       /\ signals' = <<>>
       /\ UNCHANGED <<stop, collProps, lockVars, now, nameOwned, pending, lost, storeVars, sessionVars, graphVars, nextItem>>

\* GopassStore.SearchAllItems: the matching ids of each collection that has any
SearchAllItems(meta, secs, attrs) ==
    LET found == {c \in StoreCollections(meta, secs) :
                     StoreSearchItems(secs, c, attrs) # {}}
    IN [c \in found |-> StoreSearchItems(secs, c, attrs)]

\* Service.SearchItems: the two lists, in some order of the map loops
SearchItems(attrs) ==
    LET results == SearchAllItems(collMeta, itemSecs, attrs)
        paths(lk) == UNION {{ItemPath(c, id) : id \in results[c]} :
                               c \in {d \in DOMAIN results : (d \in locked) = lk}}
    IN /\ \E unlockedList \in Orders(paths(FALSE)), lockedItems \in Orders(paths(TRUE)) :
             last' = [NoCall EXCEPT !.op = "SearchItems", !.attrs = attrs,
                                    !.result = unlockedList,
                                    !.lockedList = lockedItems]
       /\ signals' = <<>>
       /\ UNCHANGED <<stop, collProps, lockVars, now, nameOwned, pending, locked, lost, storeVars, sessionVars, graphVars, nextItem>>

(***************************************************************************)
(* Bootstrap (Service.Start): the stored collections are exported, then    *)
(* the default collection and its alias are ensured.                       *)
(***************************************************************************)
\* the registry and the bus before Start, as Service.New leaves them
NoGraph ==
    [collections |-> {}, collMu |-> EmptyMap, items |-> {}, bus |-> EmptyMap,
     itemsProp |-> EmptyMap]

\* CollectionManager.GetOrCreate: a new Collection is exported with its items
CollectionManagerGetOrCreate(g, secs, name) ==
    IF name \in g.collections THEN g
    ELSE [collections |-> g.collections \cup {name},
          collMu |-> [c \in g.collections \cup {name} |->
                         IF c = name THEN FALSE ELSE g.collMu[c]],
          itemsProp |-> [c \in g.collections \cup {name} |->
                            IF c = name THEN getItemPaths(secs, name)
                            ELSE g.itemsProp[c]],
          items |-> ExportAllItems(g.items, secs, name),
          bus |-> Export(ExportAllItemsBus(g.bus, g.items, secs, name),
                         CollectionPath(name), CollectionRef(name))]

\* CollectionManager.ExportAll: GetOrCreate for every name the store lists
RECURSIVE ExportAll(_, _, _)
ExportAll(g, secs, names) ==
    IF names = {} THEN g
    ELSE LET name == CHOOSE c \in names : TRUE
         IN ExportAll(CollectionManagerGetOrCreate(g, secs, name), secs,
                      names \ {name})

\* no property object made yet
NoProps ==
    [name |-> <<>>, Label |-> <<>>, Locked |-> FALSE,
     alias |-> [Label |-> <<>>, Locked |-> FALSE, Items |-> {}]]

\* the property values Collection.Export and Collection.ExportAtPath read
\* from the store when they make the property objects of the collection
ExportProps(meta, secs, lk, name) ==
    LET label == IF name \in DOMAIN meta THEN meta[name].label ELSE name
    IN [name |-> name, Label |-> label, Locked |-> (name \in lk),
        alias |-> [Label |-> label, Locked |-> (name \in lk),
                   Items |-> getItemPaths(secs, name)]]

\* Service.exportAlias: the Collection object exported at the alias path too
exportAlias(g, alias, name) ==
    [g EXCEPT !.bus = Export(g.bus, AliasPath(alias), CollectionRef(name))]

\* an alias that is taken at its word, whether its collection exists or not
ensureDefaultCollectionTrusting(g, meta, secs, als, t) ==
    LET found == StoreGetAlias(als, DefaultAlias)
    IN [meta |-> meta, als |-> als, refreshed |-> FALSE,
        g |-> exportAlias(CollectionManagerGetOrCreate(g, secs, found.name),
                          DefaultAlias, found.name)]

\* Service.ensureDefaultCollection: [meta, als, g, refreshed]
ensureDefaultCollection(g, meta, secs, als, t) ==
    LET found == StoreGetAlias(als, DefaultAlias)
    IN IF found.ok /\ StoreHasCollection(meta, secs, found.name)
       THEN [meta |-> meta, als |-> als, refreshed |-> FALSE,
             g |-> exportAlias(CollectionManagerGetOrCreate(g, secs, found.name),
                               DefaultAlias, found.name)]
       ELSE [meta |-> StoreCreateCollection(meta, DefaultCollection, DefaultLabel, t),
             als |-> StoreSetAlias(als, DefaultAlias, DefaultCollection),
             refreshed |-> TRUE,
             g |-> exportAlias(CollectionManagerGetOrCreate(g, secs, DefaultCollection),
                               DefaultAlias, DefaultCollection)]

\* Service.Start
Start ==
    LET exported == ExportAll(NoGraph, itemSecs, StoreCollections(collMeta, itemSecs))
        ensured == ensureDefaultCollection(exported, collMeta, itemSecs, aliases, now)
    IN /\ ~nameOwned
       /\ nameOwned' = TRUE
       /\ collMeta' = ensured.meta
       /\ aliases' = ensured.als
       /\ collections' = ensured.g.collections
       /\ collMu' = ensured.g.collMu
       /\ items' = ensured.g.items
       /\ bus' = ensured.g.bus
       /\ itemsProp' = ensured.g.itemsProp
       /\ collectionsProp' = IF ensured.refreshed THEN GetPaths(ensured.g.collections)
                             ELSE GetPaths(exported.collections)
       /\ signals' = <<>>
       /\ last' = [NoCall EXCEPT !.op = "Start"]
       /\ collProps' = ExportProps(ensured.meta, itemSecs, locked,
                                   ensured.g.bus[AliasPath(DefaultAlias)].name)
       /\ UNCHANGED <<stop, lockVars, now, pending, locked, lost, itemSecs, sessionVars, nextItem>>

(***************************************************************************)
(* The wall clock, read by time.Now(): it moves on between handler calls.  *)
(***************************************************************************)
Tick ==
    /\ now < MaxTime
    /\ now' = now + 1
    /\ UNCHANGED <<stop, collProps, lockVars, nameOwned, pending, locked, lost, storeVars, sessionVars, graphVars,
                   signals, nextItem, last>>

(***************************************************************************)
(* Session.Encrypt and Session.Decrypt, as the handlers call them: a       *)
(* plaintext is encrypted for a session, and the pair returned is          *)
(* decrypted by the same session.                                          *)
(***************************************************************************)
Encrypt(n, iv, plaintext) ==
    LET enc == SessionEncrypt(sess[n], iv, plaintext)
    IN /\ sess[n].alg # "none"
       /\ sess[n].mu = "free"
       /\ last' = [NoCall EXCEPT !.op = "Encrypt", !.sess = n, !.plain = plaintext,
                      !.secret = [session |-> SessionPath(SessionId(n)),
                                  parameters |-> enc.params, value |-> enc.value,
                                  contentType |-> ""],
                      !.err = IF enc.err # "" THEN ErrNoSession ELSE NoError]
       /\ signals' = <<>>
       /\ UNCHANGED <<stop, collProps, lockVars, now, nameOwned, pending, locked, lost, storeVars, sessionVars, graphVars, nextItem>>

\* Session.Decrypt of the pair the Encrypt before it has returned
Decrypt(n) ==
    LET dec == SessionDecrypt(sess[n], last.secret.parameters, last.secret.value)
    IN /\ last.op = "Encrypt" /\ last.err = NoError /\ last.sess = n
       /\ sess[n].mu = "free"
       /\ last' = [last EXCEPT !.op = "Decrypt", !.output = dec.plain,
                      !.err = IF dec.err = "" THEN NoError
                              ELSE IF dec.err = "closed" THEN ErrNoSession
                              ELSE ErrNotSupported]
       /\ signals' = <<>>
       /\ UNCHANGED <<stop, collProps, lockVars, now, nameOwned, pending, locked, lost, storeVars, sessionVars, graphVars, nextItem>>

\* the gopass store's Remove, as another gopass client on the same password
\* store calls it: the secret of one item goes, the service is not told
StoreRemove(collection, id) ==
    /\ <<collection, id>> \in DOMAIN itemSecs
    /\ itemSecs' = Without(itemSecs, {<<collection, id>>})
    /\ signals' = <<>>
    /\ last' = [NoCall EXCEPT !.op = "StoreRemove", !.obj = ItemPath(collection, id)]
    /\ UNCHANGED <<stop, collProps, lockVars, now, nameOwned, pending, locked, lost, collMeta, aliases, sessionVars, graphVars, nextItem>>

(***************************************************************************)
(* The mutexes.  The bus library runs every handler call in a goroutine of *)
(* its own, so handlers interleave between their lock operations.  A       *)
(* handler is the sequence of lock operations its code performs, with the  *)
(* registry updates of the prompt manager in between.                      *)
(***************************************************************************)
Goroutines == 1..MaxGoroutines

ServiceMu == <<"Service.mu", 0>>
SessionManagerMu == <<"SessionManager.mu", 0>>
CollectionManagerMu == <<"CollectionManager.mu", 0>>
ItemManagerMu == <<"ItemManager.mu", 0>>
PromptManagerMu == <<"PromptManager.mu", 0>>
SessionMu(n) == <<"Session.mu", n>>
CollectionMu(c) == <<"Collection.mu", c>>
ItemMu(i) == <<"Item.mu", i>>
PromptMu(p) == <<"Prompt.mu", p>>

\* the locks of the registries, and the kinds of the per-object locks
RegistryLocks == {SessionManagerMu, CollectionManagerMu, ItemManagerMu, PromptManagerMu}
ObjectLockKinds == {"Session.mu", "Collection.mu", "Item.mu", "Prompt.mu"}

NoHandler == [op |-> "idle", pc |-> <<>>, held |-> {}, snap |-> {}]

\* the handlers of service.go
ServicePrograms(op) ==
    CASE op = "OpenSession" ->
           <<<<"Lock", ServiceMu>>,
             <<"Lock", SessionManagerMu>>, <<"Unlock", SessionManagerMu>>,
             <<"Unlock", ServiceMu>>>>
      [] op = "CreateCollection" ->
           <<<<"Lock", ServiceMu>>,
             <<"RLock", CollectionManagerMu>>, <<"RUnlock", CollectionManagerMu>>,
             <<"Lock", CollectionManagerMu>>, <<"Unlock", CollectionManagerMu>>,
             <<"RLock", CollectionManagerMu>>, <<"RUnlock", CollectionManagerMu>>,
             <<"Unlock", ServiceMu>>>>
      [] op = "GetSecrets" ->
           <<<<"RLock", ServiceMu>>,
             <<"RLock", SessionManagerMu>>, <<"RUnlock", SessionManagerMu>>,
             <<"RLock", SessionMu(1)>>, <<"RUnlock", SessionMu(1)>>,
             <<"RUnlock", ServiceMu>>>>

\* the handlers of collection.go
CollectionPrograms(op) ==
    CASE op = "Collection.CreateItem" ->
           <<<<"Lock", CollectionMu(1)>>,
             <<"RLock", SessionManagerMu>>, <<"RUnlock", SessionManagerMu>>,
             <<"RLock", SessionMu(1)>>, <<"RUnlock", SessionMu(1)>>,
             <<"Lock", ItemManagerMu>>, <<"Unlock", ItemManagerMu>>,
             <<"Unlock", CollectionMu(1)>>>>
      [] op = "Collection.Delete" ->
           <<<<"Lock", CollectionMu(1)>>,
             <<"Lock", ItemManagerMu>>, <<"Unlock", ItemManagerMu>>,
             <<"Unlock", CollectionMu(1)>>>>
      [] op = "Collection.SearchItems" ->
           <<<<"RLock", CollectionMu(1)>>, <<"RUnlock", CollectionMu(1)>>>>

\* a bulk cleanup that keeps the registry lock while it closes the sessions
SessionProgramsNested(op) ==
    CASE op = "Session.Close" ->
           <<<<"Lock", SessionMu(1)>>,
             <<"Lock", SessionManagerMu>>, <<"Unlock", SessionManagerMu>>,
             <<"Unlock", SessionMu(1)>>>>
      [] op = "SessionManager.CloseAll" ->
           <<<<"Lock", SessionManagerMu>>,
             <<"Lock", SessionMu(1)>>, <<"Unlock", SessionMu(1)>>,
             <<"Unlock", SessionManagerMu>>>>

\* Session.Close, with close() and its onClose callback, and
\* SessionManager.CloseAll, with closeWithoutCallback
SessionPrograms(op) ==
    CASE op = "Session.Close" ->
           <<<<"Lock", SessionMu(1)>>,
             <<"Lock", SessionManagerMu>>, <<"Unlock", SessionManagerMu>>,
             <<"Unlock", SessionMu(1)>>>>
      [] op = "SessionManager.CloseAll" ->
           <<<<"Lock", SessionManagerMu>>, <<"Unlock", SessionManagerMu>>,
             <<"Lock", SessionMu(1)>>, <<"Unlock", SessionMu(1)>>>>

\* Item.Delete, Item.GetSecret and Item.SetSecret
ItemPrograms(op) ==
    CASE op = "Item.Delete" ->
           <<<<"Lock", ItemMu(1)>>,
             <<"Lock", ItemManagerMu>>, <<"Unlock", ItemManagerMu>>,
             <<"RLock", CollectionManagerMu>>, <<"RUnlock", CollectionManagerMu>>,
             <<"Unlock", ItemMu(1)>>>>
      [] op = "Item.GetSecret" ->
           <<<<"RLock", ItemMu(1)>>,
             <<"RLock", SessionManagerMu>>, <<"RUnlock", SessionManagerMu>>,
             <<"RLock", SessionMu(1)>>, <<"RUnlock", SessionMu(1)>>,
             <<"RUnlock", ItemMu(1)>>>>
      [] op = "Item.SetSecret" ->
           <<<<"Lock", ItemMu(1)>>,
             <<"RLock", SessionManagerMu>>, <<"RUnlock", SessionManagerMu>>,
             <<"RLock", SessionMu(1)>>, <<"RUnlock", SessionMu(1)>>,
             <<"Unlock", ItemMu(1)>>>>

\* the prompt manager and the prompts; Prompt.Prompt and Prompt.Dismiss run
\* emitCompleted, which ends in the onComplete callback
PromptPrograms(op) ==
    CASE op = "CreatePrompt" ->
           <<<<"Lock", PromptManagerMu>>, <<"register", PromptManagerMu>>,
             <<"Unlock", PromptManagerMu>>>>
      [] op = "PromptManager.CloseAll" ->
           <<<<"Lock", PromptManagerMu>>, <<"snapshot", PromptManagerMu>>,
             <<"Unlock", PromptManagerMu>>,
             <<"cleanup", PromptManagerMu>>, <<"reset", PromptManagerMu>>>>
      [] op = "Prompt.Prompt" ->
           <<<<"Lock", PromptMu(1)>>, <<"complete", PromptMu(1)>>,
             <<"Lock", PromptManagerMu>>, <<"delete", PromptMu(1)>>,
             <<"Unlock", PromptManagerMu>>,
             <<"Unlock", PromptMu(1)>>>>
      [] op = "Prompt.Dismiss" ->
           <<<<"Lock", PromptMu(1)>>, <<"dismiss", PromptMu(1)>>,
             <<"Lock", PromptManagerMu>>, <<"delete", PromptMu(1)>>,
             <<"Unlock", PromptManagerMu>>,
             <<"Unlock", PromptMu(1)>>>>

ServiceHandlers == {"OpenSession", "CreateCollection", "GetSecrets"}
CollectionHandlers == {"Collection.CreateItem", "Collection.Delete", "Collection.SearchItems"}
SessionHandlers == {"Session.Close", "SessionManager.CloseAll"}
ItemHandlers == {"Item.Delete", "Item.GetSecret", "Item.SetSecret"}
PromptHandlers == {"CreatePrompt", "PromptManager.CloseAll", "Prompt.Prompt", "Prompt.Dismiss"}
Handlers ==
    ServiceHandlers \cup CollectionHandlers \cup SessionHandlers \cup ItemHandlers
        \cup PromptHandlers

Program(op) ==
    IF op \in ServiceHandlers THEN ServicePrograms(op)
    ELSE IF op \in CollectionHandlers THEN CollectionPrograms(op)
    ELSE IF op \in SessionHandlers THEN SessionPrograms(op)
    ELSE IF op \in ItemHandlers THEN ItemPrograms(op)
    ELSE PromptPrograms(op)

\* sync.RWMutex.  Lock first takes the writers' mutex, then announces itself
\* to the readers and waits until those that hold the lock have left
\* ("Draining"); from the announcement on RLock blocks ("RLocking"), and
\* Unlock lets in the readers that are blocked before the writers' mutex is
\* released.
Writers(l) == {g \in Goroutines : <<l, "w">> \in gor[g].held}
Readers(l) == {g \in Goroutines : <<l, "r">> \in gor[g].held}
Draining(l) ==
    {g \in Goroutines : gor[g].pc # <<>> /\ Head(gor[g].pc) = <<"Draining", l>>}
BlockedReaders(l) ==
    {g \in Goroutines : gor[g].pc # <<>> /\ Head(gor[g].pc) = <<"RLocking", l>>}

\* the bus library dispatches a call: a goroutine starts the handler.  A
\* prompt's methods are reached only while the prompt is exported, and
\* CreatePrompt makes at most MaxPrompts prompts.
StartHandler(g, op) ==
    /\ gor[g].op = "idle"
    /\ op \in {"Prompt.Prompt", "Prompt.Dismiss"}
          => (1 \in DOMAIN prompt /\ prompt[1].exported)
    /\ op = "CreatePrompt"
          => Len(prompt) + Cardinality({h \in Goroutines : gor[h].op = "CreatePrompt"})
                 < MaxPrompts
    /\ gor' = [gor EXCEPT ![g] = [NoHandler EXCEPT !.op = op, !.pc = Program(op)]]
    /\ UNCHANGED <<stop, collProps, now, nameOwned, pending, locked, lost, storeVars, sessionVars,
                   graphVars, signals, nextItem, last, prompts, prompt>>

\* the goroutine with what is left of its handler after the step
Advance(g, rest, held, snap) ==
    [gor EXCEPT ![g] = IF rest = <<>> THEN NoHandler
                       ELSE [op |-> gor[g].op, pc |-> rest, held |-> held,
                             snap |-> snap]]

\* one step of a handler: a lock operation, or an update of the prompt
\* registry and of the prompt objects
StepHandler(g) ==
    /\ gor[g].pc # <<>>
    /\ LET k == Head(gor[g].pc)[1]
           l == Head(gor[g].pc)[2]
           rest == Tail(gor[g].pc)
           h == gor[g].held
           free == Writers(l) = {} /\ Readers(l) = {}
       IN
       CASE k = "Lock" ->
              /\ Writers(l) = {} /\ Draining(l) = {}
              /\ gor' = IF Readers(l) = {}
                        THEN Advance(g, rest, h \cup {<<l, "w">>}, gor[g].snap)
                        ELSE Advance(g, <<<<"Draining", l>>>> \o rest, h, gor[g].snap)
              /\ UNCHANGED <<prompts, prompt>>
         [] k = "Draining" ->
              /\ Readers(l) = {}
              /\ gor' = Advance(g, rest, h \cup {<<l, "w">>}, gor[g].snap)
              /\ UNCHANGED <<prompts, prompt>>
         [] k = "RLock" ->
              /\ gor' = IF Writers(l) = {} /\ Draining(l) = {}
                        THEN Advance(g, rest, h \cup {<<l, "r">>}, gor[g].snap)
                        ELSE Advance(g, <<<<"RLocking", l>>>> \o rest, h, gor[g].snap)
              /\ UNCHANGED <<prompts, prompt>>
         [] k = "RLocking" ->
              /\ FALSE
              /\ UNCHANGED <<gor, prompts, prompt>>
         [] k = "Unlock" ->
              /\ gor' = [x \in Goroutines |->
                           IF x = g
                           THEN Advance(g, rest, h \ {<<l, "w">>}, gor[g].snap)[g]
                           ELSE IF x \in BlockedReaders(l)
                           THEN [gor[x] EXCEPT !.pc = Tail(@),
                                               !.held = @ \cup {<<l, "r">>}]
                           ELSE gor[x]]
              /\ UNCHANGED <<prompts, prompt>>
         [] k = "RUnlock" ->
              /\ gor' = Advance(g, rest, h \ {<<l, "r">>}, gor[g].snap)
              /\ UNCHANGED <<prompts, prompt>>
         [] k = "register" ->
              \* CreatePrompt: m.prompts[id] = prompt, and the export
              /\ prompts' = prompts \cup {Len(prompt) + 1}
              /\ prompt' = Append(prompt, [exported |-> TRUE, completed |-> FALSE,
                                           dismissed |-> FALSE, acted |-> 0,
                                           emitted |-> <<>>])
              /\ gor' = Advance(g, rest, h, gor[g].snap)
         [] k \in {"complete", "dismiss"} ->
              \* Prompt.Prompt / Prompt.Dismiss: nothing to do for a prompt that
              \* is over.  Otherwise Prompt runs the action and, when it
              \* succeeds, sets completed and emits Completed(false, result);
              \* when it fails it emits Completed(true, "") and sets no flag.
              \* Dismiss sets dismissed and emits Completed(true, "").
              \* emitCompleted goes on with cleanup().
              IF prompt[l[2]].completed \/ prompt[l[2]].dismissed
              THEN /\ gor' = Advance(g, <<<<"Unlock", l>>>>, h, gor[g].snap)
                   /\ UNCHANGED <<prompts, prompt>>
              ELSE /\ \E ok \in (IF k = "complete" THEN BOOLEAN ELSE {TRUE}) :
                        prompt' = [prompt EXCEPT ![l[2]] =
                                     [exported |-> FALSE,
                                      completed |-> (k = "complete" /\ ok),
                                      dismissed |-> (k = "dismiss"),
                                      acted |-> IF k = "complete" THEN @.acted + 1
                                                ELSE @.acted,
                                      emitted |-> Append(@.emitted,
                                          IF k = "complete" /\ ok
                                          THEN <<FALSE, "result">>
                                          ELSE <<TRUE, "">>)]]
                   /\ gor' = Advance(g, rest, h, gor[g].snap)
                   /\ UNCHANGED prompts
         [] k = "delete" ->
              \* onComplete: delete(m.prompts, id)
              /\ prompts' = prompts \ {l[2]}
              /\ gor' = Advance(g, rest, h, gor[g].snap)
              /\ UNCHANGED prompt
         [] k = "snapshot" ->
              \* PromptManager.CloseAll: copy the prompts, then a new map
              /\ prompts' = {}
              /\ gor' = Advance(g, rest, h, prompts)
              /\ UNCHANGED prompt
         [] k = "cleanup" ->
              \* PromptManager.CloseAll: prompt.cleanup() for each copied prompt
              /\ prompt' = [p \in DOMAIN prompt |->
                              IF p \in gor[g].snap
                              THEN [prompt[p] EXCEPT !.exported = FALSE]
                              ELSE prompt[p]]
              /\ gor' = Advance(g, rest, h, gor[g].snap)
              /\ UNCHANGED prompts
         [] k = "reset" ->
              \* PromptManager.CloseAll, its last statement: a new map again
              /\ prompts' = {}
              /\ gor' = Advance(g, rest, h, gor[g].snap)
              /\ UNCHANGED prompt
    /\ UNCHANGED <<stop, collProps, now, nameOwned, pending, locked, lost, storeVars, sessionVars,
                   graphVars, signals, nextItem, last>>

(***************************************************************************)
(* Service.Stop, as main calls it when the signal arrives.  The bus        *)
(* library goes on dispatching calls until the connection is closed.       *)
(***************************************************************************)
\* s.sessions.CloseAll() is entered
StopBegin ==
    /\ stop = "running"
    /\ stop' = "sessions"
    /\ CloseAllBegin

\* s.sessions.CloseAll(), closeWithoutCallback on one session
StopCloseSession(n) ==
    /\ stop = "sessions"
    /\ CloseAllStep(n)
    /\ UNCHANGED stop

\* s.sessions.CloseAll() returns
StopSessionsClosed ==
    /\ stop = "sessions"
    /\ stop' = "prompts"
    /\ CloseAllReturn

\* s.prompts.CloseAll(): no handler of the service creates a prompt, the
\* registry it resets is empty
StopClosePrompts ==
    /\ stop = "prompts"
    /\ stop' = "release"
    /\ UNCHANGED <<collProps, lockVars, now, nameOwned, pending, locked, lost, storeVars, sessionVars,
                   graphVars, signals, nextItem, last>>

\* s.conn.ReleaseName: Stop returns the error when the call fails
StopReleaseName(ok) ==
    /\ stop = "release"
    /\ stop' = IF ok THEN "close" ELSE "stopped"
    /\ nameOwned' = (nameOwned /\ ~ok)
    /\ last' = IF ok THEN last ELSE [NoCall EXCEPT !.op = "Stop", !.err = "ReleaseName"]
    /\ UNCHANGED <<collProps, lockVars, now, pending, locked, lost, storeVars, sessionVars,
                   graphVars, signals, nextItem>>

\* s.conn.Close(), and Stop returns: nothing is exported any more
StopClose ==
    /\ stop = "close"
    /\ stop' = "stopped"
    /\ bus' = Unexport(bus, DOMAIN bus)
    /\ last' = [NoCall EXCEPT !.op = "Stop"]
    /\ UNCHANGED <<collProps, lockVars, now, nameOwned, pending, locked, lost, storeVars, sessionVars,
                   collections, collMu, items, itemsProp, collectionsProp, signals,
                   nextItem>>

(***************************************************************************)
(* The bus daemon.                                                         *)
(***************************************************************************)
\* NameOwnerChanged with an empty new owner: the client that opened the
\* sessions S has left the bus.  Service.Start subscribes to no signal and
\* CreateSession records an empty clientID, so no handler of the service
\* runs and nothing of its state changes.
NameOwnerLost(S) ==
    /\ S # {}
    /\ S \subseteq {n \in 1..nextSession : sess[n].alg # "none"} \ lost
    /\ lost' = lost \cup S
    /\ UNCHANGED <<stop, collProps, lockVars, now, nameOwned, pending, storeVars, sessionVars, graphVars, signals, nextItem,
                   last, locked>>

(***************************************************************************)
(* The state after Service.Start on an empty store, and the calls clients  *)
(* make.                                                                   *)
(***************************************************************************)
StartTime == 2

Init ==
    /\ now = StartTime
    /\ collMeta = [c \in {DefaultCollection} |->
                      [label |-> DefaultLabel, created |-> StartTime,
                       modified |-> StartTime]]
    /\ itemSecs = EmptyMap
    /\ aliases = [a \in {DefaultAlias} |-> DefaultCollection]
    /\ sessions = {}
    /\ sess = [n \in 1..MaxSessions |-> NoSessionObject]
    /\ closeAll = NoCloseAll
    /\ collections = {DefaultCollection}
    /\ collMu = [c \in {DefaultCollection} |-> FALSE]
    /\ items = {}
    /\ bus = [p \in {CollectionPath(DefaultCollection), AliasPath(DefaultAlias)} |->
                 CollectionRef(DefaultCollection)]
    /\ itemsProp = [c \in {DefaultCollection} |-> {}]
    /\ collectionsProp = GetPaths({DefaultCollection})
    /\ signals = <<>>
    /\ nextItem = 0
    /\ nextSession = 0
    /\ last = NoCall
    /\ closedRet = {}
    /\ locked = {}
    /\ lost = {}
    /\ nameOwned = TRUE
    /\ pending = NoPending
    /\ gor = [g \in Goroutines |-> NoHandler]
    /\ prompts = {}
    /\ prompt = <<>>
    /\ stop = "running"
    /\ collProps = ExportProps(collMeta, itemSecs, locked, DefaultCollection)

\* what clients send
Algorithms == {AlgorithmPlain, AlgorithmDHAES, "bogus"}
AttrMaps ==
    {EmptyMap,
     [k \in {<<"svc">>} |-> "smtp"],
     [k \in {<<metaPrefix, "x">>} |-> "v"]}
Labels == {"", "L"}
Plaintexts == {<<>>, <<112, 119>>}
ContentTypes == {""}
ServiceIVs == {Repeat(9, BlockSize)}
CollectionLabels == {<<"c">>, <<"c", "c">>}

\* the paths handed out so far
SessionNumbers == 1..nextSession
CollectionPaths == GetPaths(collections) \cup {AliasPath(DefaultAlias)}
ItemPaths == {ItemPath(c, ItemId(k)) : c \in collections, k \in 1..nextItem}
Keys(n) == IF sess[n].alg = AlgorithmDHAES THEN BOOLEAN ELSE {TRUE}

OneAttrMap == {[k \in {<<"svc">>} |-> "smtp"]}
OneLabel == {"L"}
OnePlaintext == {<<112, 119>>}

\* CreateItem on the default collection, reached through its canonical and
\* its alias path, with one session
Next ==
    \/ nextSession = 0 /\ \E algorithm \in Algorithms : OpenSession(algorithm)
    \/ \E path \in CollectionPaths, label \in Labels, attrs \in AttrMaps,
          n \in SessionNumbers, plaintext \in Plaintexts,
          contentType \in ContentTypes, replace \in BOOLEAN :
          \E good \in Keys(n) :
             CreateItem(path, label, attrs, n, good, plaintext, contentType, replace)
    \/ \E name \in collections : CreateItemReturn(name)

Spec == Init /\ [][Next]_vars

\* the whole item interface, with one session
NextItems ==
    \/ nextSession = 0 /\ \E algorithm \in Algorithms : OpenSession(algorithm)
    \/ \E path \in CollectionPaths, label \in OneLabel, attrs \in AttrMaps,
          n \in SessionNumbers, plaintext \in Plaintexts,
          contentType \in ContentTypes, replace \in BOOLEAN :
          CreateItem(path, label, attrs, n, TRUE, plaintext, contentType, replace)
    \/ \E name \in collections : CreateItemReturn(name)
    \/ \E path \in ItemPaths : ItemDelete(path)
    \/ \E path \in ItemPaths, n \in SessionNumbers, iv \in ServiceIVs :
          ItemGetSecret(path, n, iv)
    \/ \E path \in ItemPaths, n \in SessionNumbers, plaintext \in Plaintexts,
          contentType \in ContentTypes :
          ItemSetSecret(path, n, TRUE, plaintext, contentType)
    \/ \E path \in ItemPaths, attrs \in AttrMaps : setAttributes(path, attrs)
    \/ \E path \in ItemPaths, label \in OneLabel : setLabel(path, label)

SpecItems == Init /\ [][NextItems]_vars

\* the session life cycle, with the calls that dereference a session path
NextSessions ==
    \/ \E algorithm \in Algorithms : OpenSession(algorithm)
    \/ \E n \in SessionNumbers : SessionClose(n)
    \/ \E n \in SessionNumbers : CloseSession(n)
    \/ \E n \in SessionNumbers : SessionCloseReturn(n)
    \/ \E n \in SessionNumbers : SessionCloseClosed(n)
    \/ CloseAllBegin /\ UNCHANGED stop
    \/ \E n \in SessionNumbers : CloseAllStep(n) /\ UNCHANGED stop
    \/ CloseAllReturn /\ UNCHANGED stop
    \/ \E path \in CollectionPaths, label \in OneLabel, attrs \in OneAttrMap,
          n \in SessionNumbers, plaintext \in Plaintexts,
          contentType \in ContentTypes, replace \in BOOLEAN :
          CreateItem(path, label, attrs, n, TRUE, plaintext, contentType, replace)
    \/ \E name \in collections : CreateItemReturn(name)
    \/ \E path \in ItemPaths, n \in SessionNumbers, iv \in ServiceIVs :
          ItemGetSecret(path, n, iv)
    \/ \E path \in ItemPaths, n \in SessionNumbers, plaintext \in OnePlaintext,
          contentType \in ContentTypes :
          ItemSetSecret(path, n, TRUE, plaintext, contentType)
    \/ \E path \in ItemPaths, n \in SessionNumbers, iv \in ServiceIVs :
          GetSecrets(path, n, iv)

SpecSessions == Init /\ [][NextSessions]_vars

\* collections created and deleted, with items in them
NextCollections ==
    \/ nextSession = 0 /\ OpenSession(AlgorithmPlain)
    \/ \E label \in CollectionLabels : CreateCollection(label, <<>>)
    \/ \E path \in CollectionPaths : CollectionDelete(path)
    \/ \E path \in CollectionPaths, label \in OneLabel, attrs \in OneAttrMap,
          n \in SessionNumbers, plaintext \in OnePlaintext,
          contentType \in ContentTypes :
          CreateItem(path, label, attrs, n, TRUE, plaintext, contentType, FALSE)
    \/ \E name \in collections : CreateItemReturn(name)
    \/ \E path \in ItemPaths : ItemDelete(path)
    \/ \E path \in ItemPaths, n \in SessionNumbers, iv \in ServiceIVs :
          ItemGetSecret(path, n, iv)

SpecCollections == Init /\ [][NextCollections]_vars

(***************************************************************************)
(* Properties.                                                             *)
(***************************************************************************)
\* the stored items of a collection whose attribute map equals attrs
ItemsWithAttributes(secs, collection, attrs) ==
    {id \in StoreItems(secs, collection) :
        attributesMatch(StoreGetItem(secs, collection, id).Attributes, attrs)}

\* the stored item behind an item path
StoredItem(secs, path) ==
    StoreGetItem(secs, ParseItemPath(path).collection, ParseItemPath(path).id)

\* the call that returned last is a CreateItem that succeeded
Created(call) == call.op = "CreateItem" /\ call.err = NoError

\* two calls name the same collection (by its canonical or an alias path)
SameCollection(a, b) ==
    /\ Exported(a.obj, "Collection")
    /\ Exported(b.obj, "Collection")
    /\ bus[a.obj].name = bus[b.obj].name

\* C1: when a CreateItem with a non-empty attribute map A and replace=false
\* has inserted an item and the next call is a successful CreateItem on the
\* same collection with the same A and replace=false, then afterwards exactly
\* one item of the collection has attributes equal to A, the second call
\* returned the path the first returned, and the item's stored secret is the
\* first call's plaintext.
C1_DuplicateNotCreated ==
    [][(/\ Created(last) /\ last.fresh /\ ~last.replace
        /\ DOMAIN last.attrs # {}
        /\ Created(last') /\ last' # last /\ ~last'.replace
        /\ last'.attrs = last.attrs
        /\ SameCollection(last, last'))
       => (/\ Cardinality(ItemsWithAttributes(itemSecs',
                  ParseItemPath(last.path).collection, last.attrs)) = 1
           /\ last'.path = last.path
           /\ StoredItem(itemSecs', last.path).ok
           /\ StoredItem(itemSecs', last.path).Secret = last.plain)]_vars

\* C2: when a CreateItem with a non-empty attribute map A has inserted an
\* item and the next call is a successful CreateItem on the same collection
\* with the same A and replace=true, then afterwards exactly one item has
\* attributes A, the call returned the existing item's path without
\* inserting an item or emitting ItemCreated, the stored secret is the
\* second call's plaintext, and the label is the new one if that is
\* non-empty and the old one otherwise.
C2_ReplaceUpdatesExisting ==
    [][(/\ Created(last) /\ last.fresh
        /\ DOMAIN last.attrs # {}
        /\ Created(last') /\ last' # last /\ last'.replace
        /\ last'.attrs = last.attrs
        /\ SameCollection(last, last'))
       => (/\ Cardinality(ItemsWithAttributes(itemSecs',
                  ParseItemPath(last.path).collection, last.attrs)) = 1
           /\ last'.path = last.path
           /\ ~last'.fresh
           /\ \A i \in 1..Len(signals') : signals'[i][2] # "ItemCreated"
           /\ StoredItem(itemSecs', last.path).Secret = last'.plain
           /\ StoredItem(itemSecs', last.path).Label =
                 IF last'.label # "" THEN last'.label
                 ELSE StoredItem(itemSecs, last.path).Label)]_vars

\* C3: no collection holds two distinct items whose attribute maps are equal
\* and non-empty.
C3_NoDuplicateAttributes ==
    \A c \in collections :
        \A i, j \in StoreItems(itemSecs, c) :
            (/\ i # j
             /\ DOMAIN StoreGetItem(itemSecs, c, i).Attributes # {}
             /\ attributesMatch(StoreGetItem(itemSecs, c, i).Attributes,
                                StoreGetItem(itemSecs, c, j).Attributes))
            => FALSE

\* C6: an ItemCreated signal that has been emitted names an item path that
\* the Items property of its collection lists.
C6_ItemCreatedAfterRefresh ==
    \A i \in 1..Len(signals) :
        signals[i][2] = "ItemCreated"
        => signals[i][3] \in itemsProp[ParseItemPath(signals[i][3]).collection]

\* the session is in the registry and has not been closed
SessionOpen(n) == n \in 1..MaxSessions /\ SessionId(n) \in sessions /\ ~sess[n].closed

\* C4: when CreateItem has inserted an item with plaintext P and the next
\* call is Item.GetSecret on the returned path through an open session S,
\* the call returns a Secret struct whose session field is S and whose value
\* decrypts, with S's crypto, to P; on a plain session the value is P itself
\* and the parameters are empty.
C4_CreateThenGetSecret ==
    [][(/\ Created(last) /\ last.fresh
        /\ last'.op = "GetSecret"
        /\ last'.obj = last.path
        /\ SessionOpen(last'.sess))
       => (/\ last'.err = NoError
           /\ last'.secret.session = SessionPath(SessionId(last'.sess))
           /\ ClientDecrypt(last'.sess, last'.secret) = [ok |-> TRUE, plain |-> last.plain]
           /\ sess[last'.sess].alg = AlgorithmPlain
              => /\ last'.secret.value = last.plain
                 /\ last'.secret.parameters = <<>>)]_vars

\* C4, its case: GetSecret through a DH session has returned the stored,
\* non-empty secret of an item
C4_Witness ==
    /\ last.op = "GetSecret" /\ last.err = NoError
    /\ sess[last.sess].alg = AlgorithmDHAES
    /\ StoredItem(itemSecs, last.obj).Secret # <<>>
    /\ ClientDecrypt(last.sess, last.secret).plain = StoredItem(itemSecs, last.obj).Secret

\* C5: once Close, CloseSession or CloseAll has returned for a session, a
\* CreateItem, GetSecret, SetSecret or GetSecrets that names the session's
\* path fails with NoSession and leaves the stored items as they are.
C5_ClosedSessionNoSession ==
    [][(/\ last' # last
        /\ last'.op \in {"CreateItem", "GetSecret", "SetSecret", "GetSecrets"}
        /\ last'.sess \in closedRet
        /\ last'.err # BusDispatchError)
       => (last'.err = ErrNoSession /\ itemSecs' = itemSecs)]_vars

\* C5, its case: CreateItem through a session whose Close has returned
C5_Witness ==
    /\ last.op = "CreateItem"
    /\ last.sess \in closedRet
    /\ last.err = ErrNoSession
    /\ DOMAIN itemSecs # {}

\* C7: after Collection.Delete has returned successfully, neither the
\* Collections property nor the collection registry holds the path of the
\* deleted collection.
C7_DeletedCollectionUnlisted ==
    (last.op = "CollectionDelete" /\ last.err = NoError)
    => /\ last.path \notin collectionsProp
       /\ last.path \notin GetPaths(collections)

\* C8: after Collection.Delete on C has returned successfully, no item path
\* of C is registered or exported, the items stored in the other collections
\* are registered and exported, and an Item.GetSecret that follows on an item
\* path of C through an open session fails with NoSuchObject.
C8_DeletedCollectionItemsGone ==
    [][/\ (last' # last /\ last'.op = "CollectionDelete" /\ last'.err = NoError)
          => /\ \A p \in items' \cup DOMAIN bus' :
                   ~(ParseItemPath(p).ok /\ CollectionPath(ParseItemPath(p).collection) = last'.path)
             /\ \A q \in DOMAIN itemSecs' :
                   /\ ItemPath(q[1], q[2]) \in items'
                   /\ Exported(ItemPath(q[1], q[2]), "Item")'
       /\ (/\ last.op = "CollectionDelete" /\ last.err = NoError
           /\ last'.op = "GetSecret"
           /\ ParseItemPath(last'.obj).ok
           /\ CollectionPath(ParseItemPath(last'.obj).collection) = last.path
           /\ SessionOpen(last'.sess))
          => last'.err = ErrNoSuchObject]_vars

\* C9: in every state another handler can observe, a Session object is
\* exported on the bus if and only if the session registry holds its id.
\* Each section that holds the registry lock is one step of the model, so no
\* state of the model has a writer holding that lock.
C9_ExportedIffRegistered ==
    \A n \in 1..MaxSessions :
        (SessionPath(SessionId(n)) \in DOMAIN bus) <=> (SessionId(n) \in sessions)

NextDisconnect ==
    \/ \E algorithm \in Algorithms : OpenSession(algorithm)
    \/ \E S \in SUBSET (1..MaxSessions) : NameOwnerLost(S)
    \/ \E n \in SessionNumbers : SessionClose(n)
    \/ \E n \in SessionNumbers : SessionCloseReturn(n)
    \/ \E path \in CollectionPaths, label \in OneLabel, attrs \in OneAttrMap,
          n \in SessionNumbers, plaintext \in OnePlaintext,
          contentType \in ContentTypes :
          CreateItem(path, label, attrs, n, TRUE, plaintext, contentType, FALSE)
    \/ \E name \in collections : CreateItemReturn(name)

SpecDisconnect ==
    /\ Init
    /\ [][NextDisconnect]_vars
    /\ WF_vars(\E n \in 1..MaxSessions : SessionCloseReturn(n))
    /\ WF_vars(\E name \in collections : CreateItemReturn(name))

\* the session is out of the registry, off the bus and without its key
Destroyed(n) ==
    /\ SessionId(n) \notin sessions
    /\ SessionPath(SessionId(n)) \notin DOMAIN bus
    /\ sess[n].alg = AlgorithmDHAES => sess[n].aesKey = ZeroKey

\* C11: when the client that opened a session has left the bus, the session
\* is eventually destroyed: out of the registry, unexported, its key zeroed.
C11_DisconnectDestroysSessions ==
    \A n \in 1..MaxSessions : (n \in lost) ~> Destroyed(n)

(***************************************************************************)
(* Collections and their aliases.                                          *)
(***************************************************************************)
AliasNames == {<<"default">>, <<"work">>}
CollectionAliases == {<<>>, <<"work">>}
OneCollectionLabel == {<<"c">>}
AliasTargets == {RootPath, SessionBasePath} \cup GetPaths(collections)

NextAliases ==
    \/ \E label \in OneCollectionLabel, alias \in CollectionAliases :
          CreateCollection(label, alias)
    \/ \E path \in CollectionPaths : CollectionDelete(path)
    \/ \E name \in AliasNames : ReadAlias(name)
    \/ \E name \in AliasNames, collection \in AliasTargets : SetAlias(name, collection)

SpecAliases == Init /\ [][NextAliases]_vars

\* C12: a CreateCollection whose chosen name is in the collection registry
\* fails with AlreadyExists, changes neither the store nor the registry nor
\* the aliases nor the Collections property and emits no signal; a call that
\* succeeds found the name absent and put it there, so of the calls choosing
\* one name a single one creates the collection.
C12_CreateCollectionExisting ==
    [][(last' # last /\ last'.op = "CreateCollection")
       => /\ last'.obj \in collections
             => /\ last'.err = ErrAlreadyExists
                /\ UNCHANGED <<collMeta, itemSecs, aliases, collections,
                               collectionsProp, bus, items>>
                /\ signals' = <<>>
          /\ last'.err = NoError
             => /\ last'.obj \notin collections
                /\ last'.obj \in collections']_vars

\* C12, its case: CreateCollection has failed on a name the registry holds
C12_Witness ==
    /\ last.op = "CreateCollection"
    /\ last.err = ErrAlreadyExists
    /\ last.obj \in collections
    /\ last.obj # DefaultCollection

\* C13: after a successful CreateCollection with a non-empty alias,
\* ReadAlias(alias) returns the path of the new collection and the
\* Collection object is exported at <aliases>/<alias> as well.
C13_AliasPersistedAndExported ==
    (last.op = "CreateCollection" /\ last.err = NoError /\ last.alias # <<>>)
    => /\ ReadAliasPath(aliases, last.alias) = last.path
       /\ Exported(AliasPath(last.alias), "Collection")
       /\ bus[AliasPath(last.alias)] = CollectionRef(last.obj)

\* C14: ReadAlias of a name that has no persisted alias returns "/" and no
\* error, whatever the name.
C14_ReadAliasUnknown ==
    (last.op = "ReadAlias" /\ last.alias \notin DOMAIN aliases)
    => (last.path = RootPath /\ last.err = NoError)

\* C15: after a successful SetAlias(name, p) with p the canonical path of a
\* collection, ReadAlias(name) returns p; after SetAlias(name, "/") the name
\* has no alias; the targets of all other names are as before.
C15_SetAliasReadAlias ==
    [][(last' # last /\ last'.op = "SetAlias" /\ last'.err = NoError)
       => /\ last'.obj = RootPath => last'.alias \notin DOMAIN aliases'
          /\ last'.obj \in GetPaths(collections)
             => ReadAliasPath(aliases', last'.alias) = last'.obj
          /\ \A a \in (DOMAIN aliases \cup DOMAIN aliases') \ {last'.alias} :
                /\ a \in DOMAIN aliases /\ a \in DOMAIN aliases'
                /\ aliases'[a] = aliases[a]]_vars

\* C15, its case: SetAlias has pointed a name at a collection while another
\* name has an alias of its own
C15_Witness ==
    /\ last.op = "SetAlias" /\ last.err = NoError
    /\ last.obj \in GetPaths(collections)
    /\ ReadAliasPath(aliases, last.alias) = last.obj
    /\ \E a \in DOMAIN aliases : a # last.alias


(***************************************************************************)
(* Bootstrap over the contents the store can have when the service starts. *)
(***************************************************************************)
PastTime == 1

\* an item written by an earlier run of the service
StoredSecret ==
    ItemSecret([NoItem EXCEPT !.ok = TRUE, !.ID = ItemId(0), !.Secret = <<"p">>,
                              !.ContentType = DefaultContentType, !.Label = "old",
                              !.Created = PastTime, !.Modified = PastTime])

BootCollections == {DefaultCollection, <<"work">>, <<"_x">>}
BootItems == {EmptyMap, [k \in {<<<<"old">>, ItemId(0)>>} |-> StoredSecret]}
BootAliases ==
    {EmptyMap} \cup
    {[a \in {DefaultAlias} |-> c] : c \in BootCollections \cup {<<"old">>, <<"gone">>}}

InitBoot ==
    /\ now = StartTime
    /\ \E names \in SUBSET BootCollections :
          collMeta = [c \in names |->
                         [label |-> "l", created |-> PastTime, modified |-> PastTime]]
    /\ itemSecs \in BootItems
    /\ aliases \in BootAliases
    /\ sessions = {}
    /\ sess = [n \in 1..MaxSessions |-> NoSessionObject]
    /\ closeAll = NoCloseAll
    /\ collections = NoGraph.collections
    /\ collMu = NoGraph.collMu
    /\ items = NoGraph.items
    /\ bus = NoGraph.bus
    /\ itemsProp = NoGraph.itemsProp
    /\ collectionsProp = {}
    /\ signals = <<>>
    /\ nextItem = 0
    /\ nextSession = 0
    /\ last = NoCall
    /\ closedRet = {}
    /\ locked = {}
    /\ lost = {}
    /\ nameOwned = FALSE
    /\ pending = NoPending
    /\ gor = [g \in Goroutines |-> NoHandler]
    /\ prompts = {}
    /\ prompt = <<>>
    /\ stop = "running"
    /\ collProps = NoProps

NextBoot ==
    \/ Start
    \/ nameOwned /\ \E name \in AliasNames : ReadAlias(name)

SpecBoot == InitBoot /\ [][NextBoot]_vars

\* C16: after Service.Start, whatever the store held, ReadAlias("default")
\* returns the canonical path of a collection that the store and the
\* registry both hold, and that Collection object is exported at its
\* canonical path and at the alias path of "default".
C16_BootstrapDefaultAlias ==
    (last.op = "ReadAlias" /\ last.alias = DefaultAlias)
    => LET parsed == ParseCollectionPath(last.path)
       IN /\ parsed.ok
          /\ last.path = CollectionPath(parsed.name)
          /\ StoreHasCollection(collMeta, itemSecs, parsed.name)
          /\ parsed.name \in collections
          /\ Exported(last.path, "Collection")
          /\ bus[last.path] = CollectionRef(parsed.name)
          /\ Exported(AliasPath(DefaultAlias), "Collection")
          /\ bus[AliasPath(DefaultAlias)] = CollectionRef(parsed.name)

\* the store held a default alias for another collection, and no "default"
C16_Witness ==
    /\ last.op = "ReadAlias"
    /\ last.alias = DefaultAlias
    /\ last.path = CollectionPath(<<"work">>)
    /\ DefaultCollection \notin collections


(***************************************************************************)
(* Locking and searching: two collections, items with and without the      *)
(* attribute the queries name.                                             *)
(***************************************************************************)
ItemAttrMaps == {EmptyMap, [k \in {<<"svc">>} |-> "smtp"]}
Queries == {EmptyMap, [k \in {<<"svc">>} |-> "smtp"], [k \in {<<"svc">>} |-> ""]}
ObjectLists ==
    {<<CollectionPath(DefaultCollection)>>,
     <<CollectionPath(<<"c">>), AliasPath(DefaultAlias)>>,
     <<ItemPath(DefaultCollection, ItemId(1)), CollectionPath(DefaultCollection),
       CollectionPath(DefaultCollection)>>}

NextSearch ==
    \/ nextSession = 0 /\ OpenSession(AlgorithmPlain)
    \/ \E label \in OneCollectionLabel : CreateCollection(label, <<>>)
    \/ \E path \in GetPaths(collections), label \in OneLabel, attrs \in ItemAttrMaps,
          n \in SessionNumbers, plaintext \in OnePlaintext,
          contentType \in ContentTypes :
          CreateItem(path, label, attrs, n, TRUE, plaintext, contentType, FALSE)
    \/ \E name \in collections : CreateItemReturn(name)
    \/ \E objects \in ObjectLists : Lock(objects)
    \/ \E objects \in ObjectLists : Unlock(objects)
    \/ \E attrs \in Queries : SearchItems(attrs)

SpecSearch == Init /\ [][NextSearch]_vars

\* C17: Lock and Unlock return no error and no prompt ("/"); they return
\* only the paths recognised as collection paths, change the locked flag of
\* no other collection, and a second call with the same object list leaves
\* the locked flags as the first left them and returns the same list.
C17_LockUnlockIdempotent ==
    [][(last' # last /\ last'.op \in {"Lock", "Unlock"})
       => /\ last'.err = NoError
          /\ last'.path = RootPath
          /\ Range(last'.result) = {p \in Range(last'.objects) : IsCollectionPath(p)}
          /\ \A p \in Range(last'.result) :
                (ParseCollectionPath(p).name \in locked') = (last'.op = "Lock")
          /\ \A c \in (locked \ locked') \cup (locked' \ locked) :
                CollectionPath(c) \in Range(last'.result)
          /\ last'.again => (locked' = locked /\ last'.result = last.result)]_vars

\* a second Lock of a list with a path that is no collection path
C17_Witness ==
    /\ last.op = "Lock"
    /\ last.again
    /\ last.result # <<>>
    /\ Len(last.result) < Len(last.objects)
    /\ locked # {}

\* the items whose attributes hold every pair of the query
ItemsHolding(attrs) ==
    {ItemPath(c, id) : <<c, id>> \in
        {q \in DOMAIN itemSecs :
            LET item == StoreGetItem(itemSecs, q[1], q[2])
            IN \A k \in DOMAIN attrs :
                  k \in DOMAIN item.Attributes /\ item.Attributes[k] = attrs[k]}}

\* C18: SearchItems(Q) returns exactly the items whose attributes hold every
\* pair of Q, each once, those of locked collections in the locked list and
\* the others in the unlocked list; with Q empty these are all the items.
C18_SearchItemsExact ==
    (last.op = "SearchItems")
    => /\ Range(last.result) \cup Range(last.lockedList) = ItemsHolding(last.attrs)
       /\ Len(last.result) + Len(last.lockedList) = Cardinality(ItemsHolding(last.attrs))
       /\ \A p \in Range(last.lockedList) : ParseItemPath(p).collection \in locked
       /\ \A p \in Range(last.result) : ParseItemPath(p).collection \notin locked


(***************************************************************************)
(* Service.GetSecrets while sessions are opened and closed.                *)
(***************************************************************************)
SecretLists ==
    {<<ItemPath(DefaultCollection, ItemId(1))>>,
     <<ItemPath(DefaultCollection, ItemId(1)), CollectionPath(DefaultCollection),
       ItemPath(DefaultCollection, <<"none">>)>>,
     <<ItemPath(DefaultCollection, ItemId(2)), ItemPath(DefaultCollection, ItemId(1))>>}

NextSecrets ==
    \/ \E algorithm \in {AlgorithmPlain, AlgorithmDHAES} : OpenSession(algorithm)
    \/ \E n \in SessionNumbers : SessionClose(n)
    \/ \E n \in SessionNumbers : SessionCloseReturn(n)
    \/ \E label \in OneLabel, attrs \in ItemAttrMaps, n \in SessionNumbers,
          plaintext \in OnePlaintext, contentType \in ContentTypes :
          CreateItem(CollectionPath(DefaultCollection), label, attrs, n, TRUE,
                     plaintext, contentType, FALSE)
    \/ \E name \in collections : CreateItemReturn(name)
    \/ \E objects \in SecretLists, n \in SessionNumbers : GetSecretsBegin(objects, n)
    \/ \E iv \in ServiceIVs : GetSecretsFinish(iv)

SpecSecrets == Init /\ [][NextSecrets]_vars

\* the requested paths that parse as item paths and whose item the store holds
RequestedItems(objects) == {p \in Range(objects) : StoredItem(itemSecs, p).ok}

\* the Secret struct returned for path p carries the item's secret, encrypted
\* for session n
SecretOfItem(n, p, secret) ==
    /\ secret.session = SessionPath(SessionId(n))
    /\ secret.contentType = StoredItem(itemSecs, p).ContentType
    /\ ClientDecrypt(n, secret) = [ok |-> TRUE, plain |-> StoredItem(itemSecs, p).Secret]

C20_OpenSessionAlgorithms ==
    [][(last' # last /\ last'.op = "OpenSession")
       => /\ last'.alg \notin {AlgorithmPlain, AlgorithmDHAES}
             => /\ last'.err = ErrNotSupported
                /\ UNCHANGED <<sessions, sess, bus, nextSession>>
          /\ last'.alg = AlgorithmPlain
             => /\ last'.err = NoError
                /\ last'.output = <<>>
                /\ ParseSessionPath(last'.path).ok
                /\ ParseSessionPath(last'.path).id \in sessions' \ sessions
                /\ last'.path \notin DOMAIN bus
                /\ last'.path \in DOMAIN bus'
                /\ bus'[last'.path] = SessionRef(last'.sess)]_vars

\* an unknown algorithm has been refused while a session was open
C20_Witness ==
    /\ last.op = "OpenSession"
    /\ last.alg = "bogus"
    /\ last.err = ErrNotSupported
    /\ sessions # {}


(***************************************************************************)
(* Items updated while the clock moves on.                                 *)
(***************************************************************************)
TimeAttrMaps ==
    {[k \in {<<"svc">>} |-> "smtp"],
     [k \in {<<"svc">>, createdKey} |->
         IF k = createdKey THEN FormatRFC3339(PastTime) ELSE "smtp"],
     [k \in {<<"svc">>, modifiedKey} |->
         IF k = modifiedKey THEN FormatRFC3339(PastTime) ELSE "smtp"]}

NextTimes ==
    \/ nextSession = 0 /\ OpenSession(AlgorithmPlain)
    \/ Tick
    \/ \E label \in OneLabel, attrs \in OneAttrMap, n \in SessionNumbers,
          plaintext \in Plaintexts, contentType \in ContentTypes, replace \in BOOLEAN :
          CreateItem(CollectionPath(DefaultCollection), label, attrs, n, TRUE,
                     plaintext, contentType, replace)
    \/ \E name \in collections : CreateItemReturn(name)
    \/ \E path \in ItemPaths, n \in SessionNumbers, plaintext \in OnePlaintext,
          contentType \in ContentTypes :
          ItemSetSecret(path, n, TRUE, plaintext, contentType)
    \/ \E path \in ItemPaths, attrs \in TimeAttrMaps : setAttributes(path, attrs)
    \/ \E path \in ItemPaths, label \in Labels : setLabel(path, label)

SpecTimes == Init /\ [][NextTimes]_vars

\* C21: over every step, an item that stays in the store keeps its Created
\* value, and its Modified value does not decrease.
C21_CreatedFixedModifiedMonotone ==
    [][\A q \in DOMAIN itemSecs \cap DOMAIN itemSecs' :
          /\ StoreGetItem(itemSecs', q[1], q[2]).Created
                = StoreGetItem(itemSecs, q[1], q[2]).Created
          /\ StoreGetItem(itemSecs', q[1], q[2]).Modified
                >= StoreGetItem(itemSecs, q[1], q[2]).Modified]_vars

\* C27: when CreateItem with replace = true has updated an existing item, the
\* item's Modified value is greater than before the call, and the call has
\* emitted the one signal ItemChanged for the item on its collection.
C27_ReplaceBumpsModified ==
    [][(/\ last' # last
        /\ Created(last') /\ last'.replace /\ ~last'.fresh)
       => /\ StoredItem(itemSecs', last'.path).Modified
                > StoredItem(itemSecs, last'.path).Modified
          /\ signals' = <<ItemChangedSignal(ParseItemPath(last'.path).collection,
                                            last'.path)>>]_vars


(***************************************************************************)
(* The codecs over byte strings of every length up to a block and a byte   *)
(* more, some of them ending in bytes that look like padding.              *)
(***************************************************************************)
MaxPlainLen == 17
CodecBytes == {1, 16, 112}
CodecPlaintexts == {Repeat(b, len) : b \in CodecBytes, len \in 0..MaxPlainLen}
CodecIVs == {Repeat(7, BlockSize), Repeat(9, BlockSize)}

NextCodec ==
    \/ \E algorithm \in {AlgorithmPlain, AlgorithmDHAES} : OpenSession(algorithm)
    \/ \E n \in SessionNumbers, iv \in CodecIVs, plaintext \in CodecPlaintexts :
          Encrypt(n, iv, plaintext)
    \/ \E n \in SessionNumbers : Decrypt(n)

SpecCodec == Init /\ [][NextCodec]_vars

\* C22: for an open session and a byte string P, Decrypt of the pair that
\* Encrypt(P) returned succeeds and returns P; Encrypt of a plain session
\* returns empty parameters and P itself as the ciphertext.
C22_DecryptEncrypt ==
    /\ (last.op = "Decrypt" /\ ~sess[last.sess].closed)
       => (last.err = NoError /\ last.output = last.plain)
    /\ (last.op \in {"Encrypt", "Decrypt"} /\ ~sess[last.sess].closed
        /\ sess[last.sess].alg = AlgorithmPlain)
       => (last.secret.parameters = <<>> /\ last.secret.value = last.plain)

\* a plaintext of one whole block has gone through a DH session and back
C22_Witness ==
    /\ last.op = "Decrypt"
    /\ sess[last.sess].alg = AlgorithmDHAES
    /\ Len(last.plain) = BlockSize
    /\ last.output = last.plain

\* C23: the padded plaintext that DHSession.Encrypt encrypts is the
\* plaintext followed by between 1 and 16 bytes (16 when the plaintext is of
\* whole blocks), each of them the number of bytes added; its length is a
\* multiple of 16; and the unpadding of Decrypt returns the plaintext.
C23_PKCS7Padding ==
    (last.op = "Encrypt" /\ last.err = NoError /\ sess[last.sess].alg = AlgorithmDHAES)
    => LET padded == last.secret.value.blocks
           added == Len(padded) - Len(last.plain)
       IN /\ added \in 1..BlockSize
          /\ Len(last.plain) % BlockSize = 0 => added = BlockSize
          /\ SubSeq(padded, 1, Len(last.plain)) = last.plain
          /\ \A i \in (Len(last.plain) + 1)..Len(padded) : padded[i] = added
          /\ Len(padded) % BlockSize = 0
          /\ PKCS7Unpad(padded) = [ok |-> TRUE, plain |-> last.plain]

\* a plaintext of one whole block, of bytes that look like padding, padded
C23_Witness ==
    /\ last.op = "Encrypt"
    /\ sess[last.sess].alg = AlgorithmDHAES
    /\ last.plain = Repeat(BlockSize, BlockSize)
    /\ Len(last.secret.value.blocks) = 2 * BlockSize


(***************************************************************************)
(* The path tests over every path of a few segments.                       *)
(***************************************************************************)
MaxPathLen == 5
PathTokens ==
    {CollectionBasePath[1], SessionBasePath[1], PromptBasePath[1], ServicePath[1],
     "/", "a"}
PathInputs == UNION {[1..n -> PathTokens] : n \in 0..MaxPathLen}

NextPaths == \E path \in PathInputs : PathTests(path)

SpecPaths == Init /\ [][NextPaths]_vars

\* the positions of the "/" of a path after the collection base and its "/"
SlashesAfterBase(path) == {i \in 3..Len(path) : path[i] = "/"}

UnderCollectionBase(path) ==
    Len(path) >= 2 /\ path[1] = CollectionBasePath[1] /\ path[2] = "/"

\* C24: IsCollectionPath holds exactly of the collection base, "/" and one
\* segment; IsItemPath exactly of the collection base, "/" and two segments
\* that are not empty; the paths CollectionPath and ItemPath build pass
\* their test, and no path under the session, prompt or service base passes
\* either.
C24_PathTests ==
    (last.op = "PathTests")
    => /\ last.result[1]
             = (UnderCollectionBase(last.obj) /\ SlashesAfterBase(last.obj) = {})
       /\ last.result[2]
             = (/\ UnderCollectionBase(last.obj)
                /\ \E k \in 4..(Len(last.obj) - 1) : SlashesAfterBase(last.obj) = {k})
       /\ last.obj = CollectionPath(<<"a">>) => (last.result[1] /\ ~last.result[2])
       /\ last.obj = ItemPath(<<"a">>, <<"a">>) => (last.result[2] /\ ~last.result[1])
       /\ (Len(last.obj) >= 1
           /\ last.obj[1] \in {SessionBasePath[1], PromptBasePath[1], ServicePath[1]})
          => (~last.result[1] /\ ~last.result[2])

\* the tests have been asked about an item path whose first segment is empty
C24_Witness ==
    /\ last.op = "PathTests"
    /\ last.obj = ItemPath(<<>>, <<"a">>)
    /\ last.result = <<FALSE, FALSE>>

(***************************************************************************)
(* Item.Delete: what a call that reached the handler leaves behind.        *)
(***************************************************************************)
NextDelete ==
    \/ nextSession = 0 /\ OpenSession(AlgorithmPlain)
    \/ \E path \in CollectionPaths, label \in OneLabel, attrs \in AttrMaps,
          n \in SessionNumbers, plaintext \in OnePlaintext,
          contentType \in ContentTypes :
          CreateItem(path, label, attrs, n, TRUE, plaintext, contentType, FALSE)
    \/ \E name \in collections : CreateItemReturn(name)
    \/ \E path \in ItemPaths : ItemDelete(path)
    \/ \E q \in DOMAIN itemSecs : StoreRemove(q[1], q[2])

SpecDelete == Init /\ [][NextDelete]_vars

\* C25: an Item.Delete that succeeds removes the item from the store and
\* from the item registry, unexports it, leaves the collection's Items
\* property without the path, emits ItemDeleted exactly once on the
\* collection and returns "/"; when the store delete fails it returns
\* NoSuchObject, emits no signal, and the item stays registered, exported
\* and listed as it was.  (A step that leaves "last" alone is the return of
\* a Collection.CreateItem, not an Item.Delete.)
C25_ItemDelete ==
    [][(last' # last /\ last'.op = "Delete" /\ Exported(last'.obj, "Item"))
       => LET path == last'.obj
              collection == bus[path].collection
              id == bus[path].id
          IN IF last'.err = NoError
             THEN /\ <<collection, id>> \in DOMAIN itemSecs
                  /\ <<collection, id>> \notin DOMAIN itemSecs'
                  /\ path \notin items'
                  /\ path \notin DOMAIN bus'
                  /\ path \notin itemsProp'[collection]
                  /\ signals' = <<ItemDeletedSignal(collection, path)>>
                  /\ last'.path = RootPath
             ELSE /\ last'.err = ErrNoSuchObject
                  /\ signals' = <<>>
                  /\ last'.path = RootPath
                  /\ UNCHANGED <<itemSecs, items, bus, itemsProp>>]_vars

\* an Item.Delete has failed in the store on an item that is still
\* registered, exported and listed
C25_Witness ==
    /\ last.op = "Delete"
    /\ last.err = ErrNoSuchObject
    /\ last.obj \in items
    /\ Exported(last.obj, "Item")
    /\ last.obj \in itemsProp[<<"default">>]

(***************************************************************************)
(* Item.SetSecret: what it writes and what it leaves alone.                *)
(***************************************************************************)
SecretContentTypes == {"", "text/html"}

SecretAttrMaps ==
    {[k \in {<<"svc">>} |-> "smtp"],
     [k \in {createdKey} |-> FormatRFC3339(PastTime)],
     [k \in {labelKey} |-> "x"],
     [k \in {contentTypeKey} |-> ""]}

\* the property writes go to the item created first
FirstItemPath == ItemPath(DefaultCollection, ItemId(1))

NextSetSecret ==
    \/ nextSession = 0 /\ \E algorithm \in Algorithms : OpenSession(algorithm)
    \/ \E label \in OneLabel, attrs \in OneAttrMap, n \in SessionNumbers,
          plaintext \in OnePlaintext, contentType \in SecretContentTypes :
          CreateItem(CollectionPath(DefaultCollection), label, attrs, n, TRUE,
                     plaintext, contentType, FALSE)
    \/ \E name \in collections : CreateItemReturn(name)
    \/ \E path \in ItemPaths, n \in SessionNumbers, plaintext \in Plaintexts,
          contentType \in SecretContentTypes :
          ItemSetSecret(path, n, TRUE, plaintext, contentType)
    \/ \E attrs \in SecretAttrMaps : setAttributes(FirstItemPath, attrs)
    \/ \E label \in Labels : setLabel(FirstItemPath, label)

SpecSetSecret == Init /\ [][NextSetSecret]_vars

\* C26: an Item.SetSecret that succeeds through an open session overwrites
\* only the secret and the content type of the item: as GetItem reads it
\* back, the label, the attributes, the id and Created are what they were,
\* the secret is the client's plaintext, the content type is the supplied
\* one, or the existing one when the supplied one is empty, and no other
\* item changes.
C26_SetSecretFrame ==
    [][(/\ last' # last
        /\ last'.op = "SetSecret"
        /\ last'.err = NoError)
       => LET q == <<bus[last'.obj].collection, bus[last'.obj].id>>
              before == StoreGetItem(itemSecs, q[1], q[2])
              after == StoreGetItem(itemSecs', q[1], q[2])
          IN /\ before.ok /\ after.ok
             /\ after.Label = before.Label
             /\ after.Attributes = before.Attributes
             /\ after.ID = before.ID
             /\ after.Created = before.Created
             /\ after.Secret = last'.plain
             /\ after.ContentType = IF last'.secret.contentType = ""
                                    THEN before.ContentType
                                    ELSE last'.secret.contentType
             /\ DOMAIN itemSecs' = DOMAIN itemSecs
             /\ \A r \in DOMAIN itemSecs \ {q} : itemSecs'[r] = itemSecs[r]]_vars

\* a SetSecret with an empty content type has succeeded on an item whose
\* content type is not the default one
C26_Witness ==
    /\ last.op = "SetSecret"
    /\ last.err = NoError
    /\ last.secret.contentType = ""
    /\ last.obj \in DOMAIN bus
    /\ StoreGetItem(itemSecs, bus[last.obj].collection, bus[last.obj].id).ContentType
           = "text/html"
    /\ StoreGetItem(itemSecs, bus[last.obj].collection, bus[last.obj].id).Secret
           = last.plain

(***************************************************************************)
(* The locking of the handlers.  The runtime's mutexes hand a lock to each *)
(* waiter in the end (starvation mode), so a handler whose next step is    *)
(* possible again and again takes it.                                      *)
(***************************************************************************)
NextLocks ==
    \/ \E g \in Goroutines, op \in Handlers : StartHandler(g, op)
    \/ \E g \in Goroutines : StepHandler(g)

SpecLocks ==
    Init /\ [][NextLocks]_vars /\ \A g \in Goroutines : SF_vars(StepHandler(g))

\* C28: no handler holds a registry's exclusive lock, or waits for it,
\* while it still holds the lock of an object: by the time the registry
\* entry is removed the item's, the session's or the prompt's lock has been
\* released.
C28_NoRegistryLockUnderObjectLock ==
    \A g \in Goroutines, l \in RegistryLocks :
        (\/ <<l, "w">> \in gor[g].held
         \/ (gor[g].pc # <<>> /\ Head(gor[g].pc) \in {<<"Lock", l>>, <<"Draining", l>>}))
        => \A q \in gor[g].held : q[1][1] \notin ObjectLockKinds

C30_CleanupLeavesRegistry ==
    [][\A g \in Goroutines :
          (/\ gor[g].op = "PromptManager.CloseAll"
           /\ gor'[g] # gor[g]
           /\ <<PromptManagerMu, "w">> \notin gor[g].held)
          => prompts' = prompts]_vars

(***************************************************************************)
(* Shutdown: Service.Stop while clients go on calling.                     *)
(***************************************************************************)
NextStop ==
    \/ stop # "stopped" /\ \E algorithm \in Algorithms : OpenSession(algorithm)
    \/ stop # "stopped" /\ \E n \in SessionNumbers : SessionClose(n)
    \/ stop # "stopped" /\ \E n \in SessionNumbers : SessionCloseReturn(n)
    \/ StopBegin
    \/ \E n \in SessionNumbers : StopCloseSession(n)
    \/ StopSessionsClosed
    \/ StopClosePrompts
    \/ \E ok \in BOOLEAN : StopReleaseName(ok)
    \/ StopClose

SpecStop == Init /\ [][NextStop]_vars

\* C31: once Service.Stop has returned, every session ever opened is closed
\* with its key zeroised and the session registry is empty, whatever
\* OpenSession calls ran meanwhile.
C31_StoppedMeansClosed ==
    (stop = "stopped")
    => /\ sessions = {}
       /\ \A n \in 1..nextSession :
             /\ sess[n].closed
             /\ sess[n].alg = AlgorithmDHAES => sess[n].aesKey = ZeroKey

(***************************************************************************)
(* A session closed under a handler that has resolved it.                  *)
(***************************************************************************)
NextClosing ==
    \/ \E algorithm \in {AlgorithmPlain, AlgorithmDHAES} : OpenSession(algorithm)
    \/ nextItem = 0 /\
       \E n \in SessionNumbers :
          CreateItem(CollectionPath(DefaultCollection), "L", EmptyMap, n, TRUE,
                     <<112, 119>>, "", FALSE)
    \/ \E name \in collections : CreateItemReturn(name)
    \/ \E n \in SessionNumbers : SessionClose(n)
    \/ \E n \in SessionNumbers : SessionCloseReturn(n)
    \/ CloseAllBegin /\ UNCHANGED stop
    \/ \E n \in SessionNumbers : CloseAllStep(n) /\ UNCHANGED stop
    \/ CloseAllReturn /\ UNCHANGED stop
    \/ \E path \in ItemPaths, n \in SessionNumbers : ItemGetSecretBegin(path, n)
    \/ \E iv \in ServiceIVs : ItemGetSecretFinish(iv)

SpecClosing == Init /\ [][NextClosing]_vars

\* C32: an Item.GetSecret whose session is closed by the time it returns has
\* either completed as if the session were open or failed with NoSession (or
\* with an error that has nothing to do with the session); a closed session
\* is never reported as NotSupported.
C32_ClosedSessionIsNoSession ==
    (last.op = "GetSecret" /\ last.sess \in 1..nextSession /\ sess[last.sess].closed)
    => last.err \in {NoError, ErrNoSession, ErrNoSuchObject, BusDispatchError}

(***************************************************************************)
(* Prompts: what Prompt and Dismiss do to a pending prompt.                *)
(***************************************************************************)
Pending(p) == ~prompt[p].completed /\ ~prompt[p].dismissed

\* C33: on a pending prompt Prompt runs the action and emits
\* Completed(false, result), Dismiss emits Completed(true, "") and runs no
\* action; when either call returns the prompt is completed or dismissed,
\* is not exported and is not in the prompt registry.
C33_PromptAndDismiss ==
    [][\A g \in Goroutines :
          /\ (/\ gor[g].pc # <<>>
              /\ Head(gor[g].pc) = <<"complete", PromptMu(1)>>
              /\ gor'[g] # gor[g]
              /\ Pending(1))
             => /\ prompt'[1].acted = prompt[1].acted + 1
                /\ prompt'[1].emitted = Append(prompt[1].emitted, <<FALSE, "result">>)
          /\ (/\ gor[g].pc # <<>>
              /\ Head(gor[g].pc) = <<"dismiss", PromptMu(1)>>
              /\ gor'[g] # gor[g]
              /\ Pending(1))
             => /\ prompt'[1].acted = prompt[1].acted
                /\ prompt'[1].emitted = Append(prompt[1].emitted, <<TRUE, "">>)
          /\ (/\ gor[g].op \in {"Prompt.Prompt", "Prompt.Dismiss"}
              /\ gor'[g].op = "idle")
             => /\ ~Pending(1)'
                /\ ~prompt'[1].exported
                /\ 1 \notin prompts']_vars

\* C40: for every prompt the Completed signal is emitted at most once and
\* the deferred action is executed at most once, whatever calls were
\* dispatched to it.
C40_CompletedOnce ==
    \A p \in DOMAIN prompt : Len(prompt[p].emitted) <= 1 /\ prompt[p].acted <= 1

\* ---------------------------------------------------------------------
\* The Attributes property of Collection.CreateItem, as a variant

\* a D-Bus variant: its signature and its value
StringVariant(s) == [sig |-> "s", value |-> s]
Int32Variant == [sig |-> "i", value |-> "25"]

\* the Attributes property as clients send it: a{ss}, or a{sv}
AttributeVariants ==
    <<[sig |-> "a{ss}", value |-> [k \in {<<"svc">>} |-> "smtp"]],
      [sig |-> "a{sv}", value |-> [k \in {<<"svc">>} |-> StringVariant("smtp")]],
      [sig |-> "a{sv}", value |-> [k \in {<<"svc">>} |-> Int32Variant]],
      [sig |-> "a{sv}",
       value |-> [k \in {<<"svc">>, <<"port">>} |->
                     IF k = <<"svc">> THEN StringVariant("smtp") ELSE Int32Variant]]>>

HasNonString(v) ==
    v.sig = "a{sv}" /\ \E k \in DOMAIN v.value : v.value[k].sig # "s"

\* the type switch of CreateItem on the Attributes property
ParseAttributes(v) ==
    IF v.sig = "a{ss}" THEN v.value
    ELSE IF v.sig = "a{sv}"
    THEN [k \in {j \in DOMAIN v.value : v.value[j].sig = "s"} |-> v.value[k].value]
    ELSE EmptyMap

CreateItemProperties(path, label, v, n, plaintext, replace) ==
    CreateItem(path, label, ParseAttributes(v), n, TRUE, plaintext, "", replace)

NextProperties ==
    \/ nextSession = 0 /\ OpenSession(AlgorithmPlain)
    \/ \E path \in CollectionPaths, label \in Labels, i \in DOMAIN AttributeVariants,
          n \in SessionNumbers, plaintext \in OnePlaintext, replace \in BOOLEAN :
          CreateItemProperties(path, label, AttributeVariants[i], n, plaintext, replace)
    \/ \E name \in collections : CreateItemReturn(name)

SpecProperties == Init /\ [][NextProperties]_vars

\* C34: Collection.CreateItem takes the Attributes property as a map from
\* string to string and as a map from string to variant whose values are
\* strings, with the same result; when a value of the variant map is not a
\* string the call fails with InvalidArgs and no item is created or changed.
C34_NonStringRejected ==
    [][\A path \in CollectionPaths, label \in Labels, i \in DOMAIN AttributeVariants,
          n \in SessionNumbers, plaintext \in OnePlaintext, replace \in BOOLEAN :
          LET v == AttributeVariants[i] IN
          CreateItemProperties(path, label, v, n, plaintext, replace)
          => /\ ~HasNonString(v)
                => last'.attrs = [k \in DOMAIN v.value |->
                                     IF v.sig = "a{ss}" THEN v.value[k]
                                     ELSE v.value[k].value]
             /\ HasNonString(v)
                => /\ last'.err = "org.freedesktop.DBus.Error.InvalidArgs"
                   /\ UNCHANGED <<storeVars, items>>]_vars

\* ---------------------------------------------------------------------
\* Concurrent writers of one item

\* Item.setLabel up to its store read: it takes no lock of the item, and the
\* bus library runs every call in a goroutine of its own
setLabelGetItem(path, label) ==
    LET call == [NoCall EXCEPT !.op = "SetLabel", !.obj = path, !.label = label]
    IN
    /\ ~pending.active
    /\ IF ~Exported(path, "Item")
       THEN /\ last' = [call EXCEPT !.err = BusDispatchError]
            /\ pending' = pending
       ELSE
       LET item == StoreGetItem(itemSecs, bus[path].collection, bus[path].id)
       IN IF ~item.ok
          THEN /\ last' = [call EXCEPT !.err = ErrNoSuchObject]
               /\ pending' = pending
          ELSE /\ pending' = [NoPending EXCEPT !.active = TRUE, !.op = "SetLabel",
                                 !.objects = <<path>>,
                                 !.item = [item EXCEPT !.Label = label]]
               /\ last' = last
    /\ signals' = <<>>
    /\ UNCHANGED <<stop, collProps, lockVars, now, nameOwned, locked, lost, storeVars, sessionVars, graphVars, nextItem>>

\* Item.setLabel from its store write on
setLabelUpdateItem ==
    /\ pending.active
    /\ pending.op = "SetLabel"
    /\ LET path == pending.objects[1]
           collection == ParseItemPath(path).collection
           id == ParseItemPath(path).id
           call == [NoCall EXCEPT !.op = "SetLabel", !.obj = path,
                                  !.label = pending.item.Label]
       IN IF ~StoreGetItem(itemSecs, collection, id).ok
          THEN /\ last' = [call EXCEPT !.err = ErrNotSupported]
               /\ signals' = <<>>
               /\ itemSecs' = itemSecs
          ELSE /\ itemSecs' = StoreUpdateItem(itemSecs, collection, id,
                                              pending.item, now)
               /\ signals' = <<ItemChangedSignal(collection, path)>>
               /\ last' = [call EXCEPT !.changed = (itemSecs' # itemSecs)]
    /\ pending' = NoPending
    /\ UNCHANGED <<stop, collProps, lockVars, now, nameOwned, locked, lost, collMeta, aliases, sessionVars, graphVars, nextItem>>

TwoLabels == {"L", "M"}

NextWriters ==
    \/ nextSession = 0 /\ OpenSession(AlgorithmPlain)
    \/ \E path \in CollectionPaths, label \in TwoLabels, attrs \in OneAttrMap,
          n \in SessionNumbers, plaintext \in Plaintexts :
          CreateItem(path, label, attrs, n, TRUE, plaintext, "", TRUE)
    \/ \E name \in collections : CreateItemReturn(name)
    \/ \E n \in SessionNumbers, plaintext \in Plaintexts :
          ItemSetSecret(FirstItemPath, n, TRUE, plaintext, "")
    \/ \E attrs \in AttrMaps : setAttributes(FirstItemPath, attrs)
    \/ \E label \in TwoLabels : setLabelGetItem(FirstItemPath, label)
    \/ setLabelUpdateItem

SpecWriters == Init /\ [][NextWriters]_vars

\* the stored item a call was made on
Stored(secs, path) ==
    StoreGetItem(secs, ParseItemPath(path).collection, ParseItemPath(path).id)

\* C35: no update of an item is lost when Item.SetSecret, a write of its
\* Label or Attributes property and Collection.CreateItem with replace run
\* concurrently: a call that writes one part of the item leaves the parts it
\* does not write as the store holds them at the time of its write.
C35_NoLostUpdate ==
    [][(last' # last /\ last'.err = NoError /\ Stored(itemSecs, last'.obj).ok)
       => LET old == Stored(itemSecs, last'.obj)
              new == Stored(itemSecs', last'.obj)
          IN /\ last'.op = "SetLabel"
                => new.Secret = old.Secret /\ new.Attributes = old.Attributes
             /\ last'.op = "SetAttributes"
                => new.Secret = old.Secret /\ new.Label = old.Label
             /\ last'.op = "SetSecret"
                => new.Label = old.Label /\ new.Attributes = old.Attributes]_vars

\* ---------------------------------------------------------------------
\* The properties of a collection, at its canonical and its alias path

CollectionChangedSignal(path) == <<"/org/freedesktop/secrets", "CollectionChanged", path>>

\* GopassStore.SetCollectionLabel (the collection exists)
StoreSetCollectionLabel(meta, name, label, t) ==
    [k \in DOMAIN meta \cup {name} |->
        IF k = name
        THEN [label |-> label,
              created |-> IF name \in DOMAIN meta THEN meta[name].created ELSE t,
              modified |-> t]
        ELSE meta[k]]

\* a write of the Label property at a path of a collection: the bus library
\* calls Collection.setLabel and then keeps the value in the property object
\* of that path
CollectionSetLabel(path, label) ==
    LET call == [NoCall EXCEPT !.op = "SetLabel", !.obj = path]
    IN
    IF ~Exported(path, "Collection")
    THEN /\ last' = [call EXCEPT !.err = BusDispatchError]
         /\ signals' = <<>>
         /\ UNCHANGED <<stop, collProps, lockVars, now, nameOwned, pending, locked, lost, storeVars, sessionVars, graphVars, nextItem>>
    ELSE
    LET name == bus[path].name
    IN
    IF ~StoreHasCollection(collMeta, itemSecs, name)
    THEN /\ last' = [call EXCEPT !.err = ErrNotSupported]
         /\ signals' = <<>>
         /\ UNCHANGED <<stop, collProps, lockVars, now, nameOwned, pending, locked, lost, storeVars, sessionVars, graphVars, nextItem>>
    ELSE /\ collMeta' = StoreSetCollectionLabel(collMeta, name, label, now)
         /\ signals' = <<CollectionChangedSignal(CollectionPath(name))>>
         /\ collProps' =
               IF path = AliasPath(DefaultAlias)
               THEN [collProps EXCEPT !.alias.Label = label]
               ELSE IF name = collProps.name
               THEN [collProps EXCEPT !.Label = label]
               ELSE collProps
         /\ last' = [call EXCEPT !.path = CollectionPath(name)]
         /\ UNCHANGED <<stop, lockVars, now, nameOwned, pending, locked, lost, itemSecs, aliases, sessionVars, graphVars, nextItem>>

\* Properties.Get at a path of the collection the property objects were made for
GetLabel(path) ==
    IF path = AliasPath(DefaultAlias) THEN collProps.alias.Label ELSE collProps.Label
GetLocked(path) ==
    IF path = AliasPath(DefaultAlias) THEN collProps.alias.Locked ELSE collProps.Locked
GetItems(path) ==
    IF path = AliasPath(DefaultAlias) THEN collProps.alias.Items
    ELSE itemsProp[collProps.name]

DefaultPathOnly == {<<CollectionPath(DefaultCollection)>>}

NextProps ==
    \/ nextSession = 0 /\ OpenSession(AlgorithmPlain)
    \/ \E path \in CollectionPaths, attrs \in AttrMaps, n \in SessionNumbers :
          CreateItem(path, "L", attrs, n, TRUE, <<112, 119>>, "", FALSE)
    \/ \E name \in collections : CreateItemReturn(name)
    \/ \E path \in ItemPaths : ItemDelete(path)
    \/ \E path \in CollectionPaths, label \in CollectionLabels :
          CollectionSetLabel(path, label)
    \/ \E objects \in DefaultPathOnly : Lock(objects)
    \/ \E objects \in DefaultPathOnly : Unlock(objects)
    \/ \E attrs \in OneAttrMap : SearchItems(attrs)

SpecProps == Init /\ [][NextProps]_vars

\* C36: the Label and the Items property read at the alias path
\* <aliases>/default equal those read at the canonical path of the
\* collection, also after a write of Label through either path and after
\* items were created or deleted.
C36_AliasPathSameProperties ==
    (/\ Exported(AliasPath(DefaultAlias), "Collection")
     /\ Exported(CollectionPath(collProps.name), "Collection")
     /\ bus[AliasPath(DefaultAlias)].name = collProps.name
     /\ ~collMu[collProps.name])
    => /\ GetLabel(AliasPath(DefaultAlias)) = GetLabel(CollectionPath(collProps.name))
       /\ GetItems(AliasPath(DefaultAlias)) = GetItems(CollectionPath(collProps.name))

\* C37: the Locked property of an exported collection reports the locked
\* flag the store holds for it: true after Service.Lock named the
\* collection, false after Service.Unlock did, as the two lists of
\* SearchItems have it.
C37_LockedPropertyCurrent ==
    Exported(CollectionPath(collProps.name), "Collection")
    => GetLocked(CollectionPath(collProps.name)) = (collProps.name \in locked)

\* ---------------------------------------------------------------------
\* A deleted collection

\* the call before was a Collection.Delete that succeeded
JustDeleted ==
    /\ last.op = "CollectionDelete"
    /\ last.err = NoError
    /\ ParseCollectionPath(last.path).ok

\* C38: a collection that Collection.Delete deleted is gone: the registry
\* does not hold it, it is exported at no path, a CreateCollection that
\* gives its name succeeds instead of failing with AlreadyExists, and no
\* CreateItem reaches the deleted object and creates the collection in the
\* store again.
C38_DeletedCollectionGone ==
    [][JustDeleted
       => LET name == ParseCollectionPath(last.path).name
          IN /\ ~CollectionManagerGet(name)
             /\ \A p \in DOMAIN bus : bus[p] # CollectionRef(name)
             /\ (last'.op = "CreateCollection" /\ last'.obj = name)
                => last'.err # ErrAlreadyExists
             /\ (last'.op = "CreateItem" /\ last' # last)
                => ~StoreHasCollection(collMeta', itemSecs', name)]_vars

\* ---------------------------------------------------------------------
\* Aliases and the collections they name

\* the targets a client gives SetAlias: no alias, no collection path, the
\* collections of the registry, a collection that was never created
DanglingTargets ==
    {RootPath, SessionBasePath, CollectionPath(<<"ghost">>)} \cup GetPaths(collections)

NextDangling ==
    \/ \E label \in OneCollectionLabel, alias \in CollectionAliases :
          CreateCollection(label, alias)
    \/ \E path \in CollectionPaths : CollectionDelete(path)
    \/ \E name \in AliasNames : ReadAlias(name)
    \/ \E name \in AliasNames, collection \in DanglingTargets : SetAlias(name, collection)

SpecDangling == Init /\ [][NextDangling]_vars

\* C39: for every alias name ReadAlias returns "/" or the canonical path of
\* a collection the registry holds; SetAlias persists no alias whose
\* collection does not exist, and a deleted collection leaves no alias that
\* names it.
C39_AliasesNameCollections ==
    /\ last.op = "ReadAlias"
       => last.path = RootPath \/ last.path \in GetPaths(collections)
    /\ \A a \in DOMAIN aliases :
          /\ CollectionManagerGet(aliases[a])
          /\ StoreHasCollection(collMeta, itemSecs, aliases[a])

====
